---- MODULE Spec2Model ----
(***************************************************************************)
(* Course prerequisite knowledge graph of the AUC advising chatbot:        *)
(* the Neo4j importer (graph compiler), the relationship verifier, the     *)
(* prerequisite evaluator and the closure / path tools over the course     *)
(* documents.                                                              *)
(*                                                                         *)
(* Strings are sequences of tokens: a course code "CSCE 1001" is           *)
(* <<"CSCE", " ", "1001">>, a master id "COURSE:CSCE_1001" is              *)
(* <<"COURSE:", "CSCE", "_", "1001">>.  Python's None is the value None.   *)
(***************************************************************************)
EXTENDS Integers, Sequences, FiniteSets, Bags, TLC

VARIABLES
    catalog,      \* courses_master.json, flattened: sequence of course documents
    nodes,        \* Neo4j nodes: bag of [label, key, prop]
    edges,        \* Neo4j relationships: bag of [kind, from, to]
    req_counter,  \* CompleteCourseImporter.req_counter
    pc,           \* position of the import run
    runs,         \* number of compilation runs started
    runKind,      \* how the current run was started
    prevNodes,    \* nodes when the current run started
    prevEdges,    \* edges when the current run started
    report,       \* lists built by RelationshipVerifier.verify_all_relationships
    verified,     \* TRUE iff the last step was verify_all_relationships
    courses,      \* MongoDB courses collection (sequence of documents)
    query,        \* the last tool call: its name and arguments
    answer,       \* what the last tool call produced
    stack,        \* call stack of the running recursive traversal
    visited,      \* visited set shared by the frames of the traversal
    chain,        \* result list the traversal appends to
    catalogs      \* MongoDB catalogs collection: one record per program and year

vars == <<catalog, nodes, edges, req_counter, pc, runs, runKind, prevNodes,
          prevEdges, report, verified, courses, query, answer, stack, visited,
          chain, catalogs>>

graphVars == <<nodes, edges, req_counter, pc, runs, runKind, prevNodes,
               prevEdges, report, verified>>
toolVars == <<courses, query, answer, catalogs>>
walkVars == <<stack, visited, chain>>

-----------------------------------------------------------------------------
(* Bounds *)

\* compilation runs that one behaviour may start
MaxRuns == 2
\* children of an AND / OR node in the evaluator's inputs
MaxArgs == 2
\* length of a completed_courses argument
MaxCompleted == 2
\* frames the traversal's call stack may hold
MaxStack == 6

-----------------------------------------------------------------------------
(* Strings *)

None == <<"<None>">>

\* Python truthiness of an optional string
Truthy(s) == s # None /\ s # <<>>

UpperTok(t) ==
    CASE t = "csce" -> "CSCE"
      [] t = "req_" -> "REQ_"
      [] OTHER -> t

\* str.upper()
Upper(s) == [i \in 1..Len(s) |-> UpperTok(s[i])]

RECURSIVE LStrip(_)
LStrip(s) == IF s # <<>> /\ Head(s) = " " THEN LStrip(Tail(s)) ELSE s

RECURSIVE RStrip(_)
RStrip(s) ==
    IF s # <<>> /\ s[Len(s)] = " " THEN RStrip(SubSeq(s, 1, Len(s) - 1)) ELSE s

\* str.strip()
Strip(s) == RStrip(LStrip(s))

StartsWithCourse(s) == Len(s) > 0 /\ s[1] = "COURSE:"

IsPrefixTok(t) == t = "COURSE:"
NotPrefixTok(t) == ~IsPrefixTok(t)

convert_master_id_to_code_keep_underscore(master_id) ==
    IF ~Truthy(master_id) \/ ~StartsWithCourse(master_id)
    THEN None
    ELSE SelectSeq(master_id, NotPrefixTok)

\* COURSE:XXX_YYYY -> XXX YYYY, None when the id is missing or has no prefix
convert_master_id_to_code(master_id) ==
    IF ~Truthy(master_id) \/ ~StartsWithCourse(master_id)
    THEN None
    ELSE LET stripped == SelectSeq(master_id, NotPrefixTok)
         IN  [i \in 1..Len(stripped) |->
                 IF stripped[i] = "_" THEN " " ELSE stripped[i]]

-----------------------------------------------------------------------------
(* Course identities *)

C1001 == <<"CSCE", " ", "1001">>
C1101 == <<"CSCE", " ", "1101">>
C2303 == <<"CSCE", " ", "2303">>
C9999 == <<"CSCE", " ", "9999">>

M1001 == <<"COURSE:", "CSCE", "_", "1001">>
M1101 == <<"COURSE:", "CSCE", "_", "1101">>
M2303 == <<"COURSE:", "CSCE", "_", "2303">>
\* a master id that no document of the catalogs carries
M9999 == <<"COURSE:", "CSCE", "_", "9999">>
\* a malformed reference: no COURSE: prefix
MBad == <<"CSCE", "_", "1001">>

-----------------------------------------------------------------------------
(* Prerequisite AST *)

Node(op, id, args) == [op |-> op, id |-> id, args |-> args]

NoAst == Node("NONE", None, <<>>)
Course(m) == Node("COURSE", m, <<>>)
Concurrent(m) == Node("CONCURRENT", m, <<>>)
Standing(l) == Node("STANDING", l, <<>>)
Approval(t) == Node("APPROVAL", t, <<>>)
Exemption == Node("EXEMPTION", None, <<>>)
ExternalCert(c) == Node("EXTERNAL_CERT", c, <<>>)
And(args) == Node("AND", None, args)
Or(args) == Node("OR", None, args)

\* `if not node`
NodeFalsy(node) == node.op = "NONE"

RECURSIVE SubNodes(_)
SubNodes(node) ==
    {node} \cup UNION {SubNodes(node.args[i]) : i \in 1..Len(node.args)}

SeqsUpTo(S, n) == UNION {[1..k -> S] : k \in 0..n}

Range(s) == {s[i] : i \in 1..Len(s)}

-----------------------------------------------------------------------------
(* Course documents of courses_master.json *)

Doc(code, mid, ast, pre, ipf, co, eq) ==
    [course_code |-> code, course_master_id |-> mid,
     department_code |-> <<"CSCE">>,
     department_name |-> <<"Computer Science and Engineering">>,
     prerequisite_ast |-> ast, prerequisite_courses |-> pre,
     is_prerequisite_for |-> ipf, corequisites |-> co, equivalencies |-> eq]

Asts2303 ==
    { NoAst,
      Course(M1101),
      Concurrent(M1101),
      And(<<Course(M1101), Course(M1001)>>),
      Or(<<Course(M1101), And(<<Course(M1001), Course(M9999)>>)>>),
      And(<<Concurrent(M1101), Standing(<<"junior">>),
            Approval(<<"instructor">>), Course(MBad)>>) }

\* documents that a catalog may hold besides the three CSCE courses
ExtraDocs ==
    { <<>>,
      \* a document without course_code
      <<Doc(None, M9999, Course(M1001), <<M1001>>, <<>>, <<>>, <<>>)>>,
      \* a second document carrying the master id of CSCE 1001
      <<Doc(C9999, M1001, NoAst, <<>>, <<>>, <<>>, <<>>)>> }

\* (prerequisite_ast, prerequisite_courses) of CSCE 1101
Docs1101 == { <<NoAst, <<>>>>, <<Course(M2303), <<M1001>>>> }

\* (equivalencies of CSCE 1001, corequisites of CSCE 2303)
SymmetricLists == { <<<<>>, <<>>>>, <<<<>>, <<M1101>>>>, <<<<M1101>>, <<M1101>>>> }

CompilerCatalogs ==
    { << Doc(C1001, M1001, NoAst, <<>>, ipf1, <<>>, sym[1]),
         Doc(C1101, M1101, d2[1], d2[2], <<>>, <<>>, <<>>),
         Doc(C2303, M2303, ast3, pre3, <<>>, sym[2], <<>>) >> \o extra :
        ipf1 \in {<<>>, <<M1101>>, <<M9999>>},
        sym \in SymmetricLists,
        d2 \in Docs1101,
        ast3 \in Asts2303,
        pre3 \in {<<>>, <<M1101, M9999>>, <<MBad, M1101>>},
        extra \in ExtraDocs }

-----------------------------------------------------------------------------
(* Graph store: Cypher MATCH / MERGE on bags of nodes and relationships *)

NodeRef(label, key) == [label |-> label, key |-> key]
CourseRef(code) == NodeRef("Course", code)
GroupRef(id) == NodeRef("RequirementGroup", id)

Edge(kind, from, to) == [kind |-> kind, from |-> from, to |-> to]

Graph(ns, es, ctr, ok) == [nodes |-> ns, edges |-> es, ctr |-> ctr, ok |-> ok]

\* MATCH (n:label {key})
HasNode(ns, label, key) ==
    \E n \in DOMAIN ns : n.label = label /\ n.key = key

HasCourse(ns, code) == HasNode(ns, "Course", code)

\* the relationship pattern (from)-[:kind]->(to)
HasEdge(es, kind, from, to) == Edge(kind, from, to) \in DOMAIN es

\* the undirected pattern (a)-[:kind]-(b)
HasEdgeEither(es, kind, a, b) ==
    HasEdge(es, kind, a, b) \/ HasEdge(es, kind, b, a)

\* CREATE: a new node whatever the store holds
CreateNode(ns, label, key, prop) ==
    ns (+) SetToBag({[label |-> label, key |-> key, prop |-> prop]})

\* MERGE (n:label {key}) SET n.prop = prop
MergeNode(ns, label, key, prop) ==
    LET match == {n \in DOMAIN ns : n.label = label /\ n.key = key}
        rest == [n \in (DOMAIN ns) \ match |-> ns[n]]
        new == [label |-> label, key |-> key, prop |-> prop]
        cnt == IF match = {} THEN 1
               ELSE BagCardinality([n \in match |-> ns[n]])
    IN  rest (+) [n \in {new} |-> cnt]

\* CREATE (from)-[:kind]->(to)
CreateEdge(es, kind, from, to) == es (+) SetToBag({Edge(kind, from, to)})

\* MERGE (from)-[:kind]->(to), both end nodes already matched
MergeEdge(es, kind, from, to) ==
    IF HasEdge(es, kind, from, to) THEN es
    ELSE es (+) SetToBag({Edge(kind, from, to)})

\* MATCH (a) MATCH (b) MERGE (a)-[:kind]->(b)
MatchMergeEdge(G, kind, from, to) ==
    IF HasNode(G.nodes, from.label, from.key) /\ HasNode(G.nodes, to.label, to.key)
    THEN [G EXCEPT !.edges = MergeEdge(G.edges, kind, from, to)]
    ELSE G

-----------------------------------------------------------------------------
(* CompleteCourseImporter *)

\* the unique constraint on Course.master_id rejects the SET
MasterIdTaken(ns, code, mid) ==
    \E n \in DOMAIN ns : n.label = "Course" /\ n.key # code /\ n.prop = mid

create_department(G, d) ==
    [G EXCEPT !.nodes =
        MergeNode(G.nodes, "Department", d.department_code, d.department_name)]

RECURSIVE create_departments_from(_, _, _)
create_departments_from(G, K, i) ==
    IF i > Len(K) THEN G
    ELSE create_departments_from(create_department(G, K[i]), K, i + 1)

\* the dictionary of names is built before the first MERGE:
\* dept_info['department_name'] raises KeyError when the key is missing
create_departments(G, K) ==
    IF \E i \in 1..Len(K) : "department_name" \notin DOMAIN K[i]
    THEN [G EXCEPT !.ok = FALSE]
    ELSE create_departments_from(G, K, 1)

import_course(G, d) ==
    IF ~Truthy(d.course_code) THEN G
    ELSE LET mid == IF Truthy(d.course_master_id) THEN d.course_master_id
                    ELSE d.course_code
         IN  IF MasterIdTaken(G.nodes, d.course_code, mid)
             THEN [G EXCEPT !.ok = FALSE]
             ELSE MatchMergeEdge(
                      [G EXCEPT !.nodes = MergeNode(G.nodes, "Course", d.course_code, mid)],
                      "BELONGS_TO", CourseRef(d.course_code),
                      NodeRef("Department", d.department_code))

RECURSIVE import_courses_from(_, _, _)
import_courses_from(G, K, i) ==
    IF i > Len(K) \/ ~G.ok THEN G
    ELSE import_courses_from(import_course(G, K[i]), K, i + 1)

import_courses(G, K) == import_courses_from(G, K, 1)

\* f"req_{course_code}_{self.req_counter}"
ReqId(course_code, n) == <<"req_">> \o course_code \o <<"_", ToString(n)>>

Ret(G, ret) == [G |-> G, ret |-> ret]

\* MATCH (c:Course) MERGE (r:RequirementGroup {id}) SET r.type MERGE (c)-[:HAS_REQUIREMENT]->(r)
create_group(G, course_code, req_id, type) ==
    IF ~HasCourse(G.nodes, course_code) THEN G
    ELSE [G EXCEPT
            !.nodes = MergeNode(G.nodes, "RequirementGroup", req_id, type),
            !.edges = MergeEdge(G.edges, "HAS_REQUIREMENT",
                                CourseRef(course_code), GroupRef(req_id))]

\* MATCH (c:Course) MERGE (s:label {key}) MERGE (c)-[:kind]->(s)
create_gate(G, course_code, label, key, kind) ==
    IF ~HasCourse(G.nodes, course_code) THEN G
    ELSE [G EXCEPT
            !.nodes = IF HasNode(G.nodes, label, key) THEN G.nodes
                      ELSE CreateNode(G.nodes, label, key, None),
            !.edges = MergeEdge(G.edges, kind, CourseRef(course_code),
                                NodeRef(label, key))]

\* the edge an AND / OR node emits for a child that returned a string
attach_child(G, req_id, kind, child_result) ==
    IF Truthy(child_result)
    THEN MatchMergeEdge(G, kind, GroupRef(req_id), CourseRef(child_result))
    ELSE G

reused_req_counter(ctr) == ctr

\* the id a run allocates for the next AND / OR node
next_req_counter(ctr) == ctr + 1

RECURSIVE process_ast_node(_, _, _, _), process_children(_, _, _, _, _, _)

process_children(G, course_code, req_id, kind, args, j) ==
    IF j > Len(args) THEN G
    ELSE LET r == process_ast_node(G, course_code, args[j], FALSE)
         IN  process_children(attach_child(r.G, req_id, kind, r.ret),
                              course_code, req_id, kind, args, j + 1)

process_ast_node(G, course_code, node, is_root) ==
    IF NodeFalsy(node) THEN Ret(G, None)
    ELSE CASE node.op = "COURSE" ->
                LET prereq_code == convert_master_id_to_code(node.id)
                IN  IF ~Truthy(node.id) \/ ~Truthy(prereq_code) THEN Ret(G, None)
                    ELSE Ret(IF is_root
                             THEN MatchMergeEdge(G, "REQUIRES",
                                      CourseRef(course_code), CourseRef(prereq_code))
                             ELSE G,
                             prereq_code)
           [] node.op = "CONCURRENT" ->
                LET prereq_code == convert_master_id_to_code(node.id)
                IN  IF ~Truthy(node.id) \/ ~Truthy(prereq_code) THEN Ret(G, None)
                    ELSE Ret(MatchMergeEdge(G, "COREQUISITE",
                                 CourseRef(course_code), CourseRef(prereq_code)),
                             prereq_code)
           [] node.op \in {"AND", "OR"} ->
                LET ctr == next_req_counter(G.ctr)
                    req_id == ReqId(course_code, ctr)
                    G1 == create_group([G EXCEPT !.ctr = ctr], course_code,
                                       req_id, node.op)
                    kind == IF node.op = "AND" THEN "REQUIRES" ELSE "OPTION"
                IN  Ret(process_children(G1, course_code, req_id, kind, node.args, 1),
                        req_id)
           [] node.op = "STANDING" ->
                Ret(create_gate(G, course_code, "StandingRequirement", node.id,
                                "REQUIRES_STANDING"), None)
           [] node.op = "APPROVAL" ->
                Ret(create_gate(G, course_code, "ApprovalRequirement", node.id,
                                "REQUIRES_APPROVAL"), None)
           [] OTHER -> Ret(G, None)

parse_prerequisite_ast(G, course_code, prereq_ast) ==
    IF NodeFalsy(prereq_ast) THEN G
    ELSE process_ast_node(G, course_code, prereq_ast, TRUE).G

RECURSIVE create_prerequisites_from_ast_from(_, _, _)
create_prerequisites_from_ast_from(G, K, i) ==
    IF i > Len(K) THEN G
    ELSE create_prerequisites_from_ast_from(
             IF Truthy(K[i].course_code)
             THEN parse_prerequisite_ast(G, K[i].course_code, K[i].prerequisite_ast)
             ELSE G,
             K, i + 1)

create_prerequisites_from_ast(G, K) == create_prerequisites_from_ast_from(G, K, 1)

-----------------------------------------------------------------------------
(* Secondary relationship passes, over the documents' lists *)

\* MATCH (c) MATCH (p) WHERE NOT (c)-[:REQUIRES]->(p) MERGE (c)-[:REQUIRES]->(p)
prerequisite_from_list(G, course_code, prereq_master_id) ==
    LET prereq_code == convert_master_id_to_code(prereq_master_id)
    IN  IF ~Truthy(prereq_code) THEN G
        ELSE IF HasEdge(G.edges, "REQUIRES", CourseRef(course_code), CourseRef(prereq_code))
             THEN G
             ELSE MatchMergeEdge(G, "REQUIRES", CourseRef(course_code),
                                 CourseRef(prereq_code))

\* MATCH (c) MATCH (t) WHERE NOT (t)-[:REQUIRES]->(c) MERGE (t)-[:REQUIRES]->(c)
is_prerequisite_for_edge(G, course_code, target_master_id) ==
    LET target_code == convert_master_id_to_code(target_master_id)
    IN  IF ~Truthy(target_code) THEN G
        ELSE IF HasEdge(G.edges, "REQUIRES", CourseRef(target_code), CourseRef(course_code))
             THEN G
             ELSE MatchMergeEdge(G, "REQUIRES", CourseRef(target_code),
                                 CourseRef(course_code))

\* WHERE NOT (a)-[:kind]-(b) MERGE (a)-[:kind]->(b) MERGE (b)-[:kind]->(a)
symmetric_edge(G, kind, course_code, other_master_id) ==
    LET other_code == convert_master_id_to_code(other_master_id)
    IN  IF ~Truthy(other_code) THEN G
        ELSE IF HasEdgeEither(G.edges, kind, CourseRef(course_code), CourseRef(other_code))
             THEN G
             ELSE MatchMergeEdge(
                      MatchMergeEdge(G, kind, CourseRef(course_code), CourseRef(other_code)),
                      kind, CourseRef(other_code), CourseRef(course_code))

PassRefs(pass, d) ==
    CASE pass = "list" -> d.prerequisite_courses
      [] pass = "isprereq" -> d.is_prerequisite_for
      [] pass = "coreq" -> d.corequisites
      [] pass = "equiv" -> d.equivalencies

PassStep(G, pass, course_code, ref) ==
    CASE pass = "list" -> prerequisite_from_list(G, course_code, ref)
      [] pass = "isprereq" -> is_prerequisite_for_edge(G, course_code, ref)
      [] pass = "coreq" -> symmetric_edge(G, "COREQUISITE", course_code, ref)
      [] pass = "equiv" -> symmetric_edge(G, "EQUIVALENT", course_code, ref)

RECURSIVE ForEachRef(_, _, _, _, _)
ForEachRef(G, pass, course_code, refs, j) ==
    IF j > Len(refs) THEN G
    ELSE ForEachRef(PassStep(G, pass, course_code, refs[j]), pass, course_code,
                    refs, j + 1)

RECURSIVE ForEachCourse(_, _, _, _)
ForEachCourse(G, pass, K, i) ==
    IF i > Len(K) THEN G
    ELSE ForEachCourse(
             IF Truthy(K[i].course_code)
             THEN ForEachRef(G, pass, K[i].course_code, PassRefs(pass, K[i]), 1)
             ELSE G,
             pass, K, i + 1)

create_prerequisites_from_list(G, K) == ForEachCourse(G, "list", K, 1)
create_is_prerequisite_for(G, K) == ForEachCourse(G, "isprereq", K, 1)
create_corequisites(G, K) == ForEachCourse(G, "coreq", K, 1)
create_equivalencies(G, K) == ForEachCourse(G, "equiv", K, 1)

\* MERGE (p:Program {code: 'CS'}), MERGE (p:Program {code: 'CE'})
create_program_structure(G) ==
    [G EXCEPT !.nodes =
        MergeNode(MergeNode(G.nodes, "Program", <<"CS">>, <<"Computer Science">>),
                  "Program", <<"CE">>, <<"Computer Engineering">>)]

\* core_courses, restricted to the course codes of the catalogs above
core_courses ==
    << <<(<<"CS">>), C1001>>, <<(<<"CS">>), C1101>>,
       <<(<<"CE">>), C1001>>, <<(<<"CE">>), C1101>>, <<(<<"CE">>), C2303>> >>

RECURSIVE link_core_courses_from(_, _)
link_core_courses_from(G, i) ==
    IF i > Len(core_courses) THEN G
    ELSE link_core_courses_from(
             MatchMergeEdge(G, "REQUIRES", NodeRef("Program", core_courses[i][1]),
                            CourseRef(core_courses[i][2])),
             i + 1)

link_core_courses(G) == link_core_courses_from(G, 1)

-----------------------------------------------------------------------------
(* RelationshipVerifier.verify_all_relationships *)

\* MATCH (c:Course {code})-[:kind]->(p:Course {code}) RETURN r
DirectEdge(es, kind, from_code, to_code) ==
    HasEdge(es, kind, CourseRef(from_code), CourseRef(to_code))

\* MATCH (c)-[:HAS_REQUIREMENT]->(rg:RequirementGroup)-[:REQUIRES|OPTION]->(p)
GroupPath(es, course_code, prereq_code) ==
    \E e \in DOMAIN es :
        /\ e.kind = "HAS_REQUIREMENT"
        /\ e.from = CourseRef(course_code)
        /\ e.to.label = "RequirementGroup"
        /\ \/ HasEdge(es, "REQUIRES", e.to, CourseRef(prereq_code))
           \/ HasEdge(es, "OPTION", e.to, CourseRef(prereq_code))

forward_missing_direct_only(es, course_code, prereq_code) ==
    ~DirectEdge(es, "REQUIRES", course_code, prereq_code)

\* the prerequisite_courses check: no direct edge and no requirement group path
forward_missing(es, course_code, prereq_code) ==
    /\ ~DirectEdge(es, "REQUIRES", course_code, prereq_code)
    /\ ~GroupPath(es, course_code, prereq_code)

\* the is_prerequisite_for check
reverse_missing(es, course_code, target_code) ==
    ~DirectEdge(es, "REQUIRES", target_code, course_code)

\* the corequisite / equivalency check, either direction
symmetric_missing(es, kind, course_code, other_code) ==
    ~HasEdgeEither(es, kind, CourseRef(course_code), CourseRef(other_code))

NoReport ==
    [missing_courses |-> <<>>, missing_prereqs |-> <<>>,
     missing_coreqs |-> <<>>, missing_equivs |-> <<>>]

RECURSIVE check_courses_exist(_, _, _, _)
check_courses_exist(ns, K, i, missing) ==
    IF i > Len(K) THEN missing
    ELSE check_courses_exist(ns, K, i + 1,
             IF Truthy(K[i].course_code) /\ ~HasCourse(ns, K[i].course_code)
             THEN Append(missing, K[i].course_code)
             ELSE missing)

RECURSIVE check_reverse(_, _, _, _, _)
check_reverse(es, course_code, refs, j, missing) ==
    IF j > Len(refs) THEN missing
    ELSE LET target_code == convert_master_id_to_code(refs[j])
         IN  check_reverse(es, course_code, refs, j + 1,
                 IF Truthy(target_code) /\ reverse_missing(es, course_code, target_code)
                 THEN Append(missing, <<course_code, target_code, "is_prerequisite_for">>)
                 ELSE missing)

RECURSIVE check_forward(_, _, _, _, _)
check_forward(es, course_code, refs, j, missing) ==
    IF j > Len(refs) THEN missing
    ELSE LET prereq_code == convert_master_id_to_code(refs[j])
         IN  check_forward(es, course_code, refs, j + 1,
                 IF Truthy(prereq_code) /\ forward_missing(es, course_code, prereq_code)
                 THEN Append(missing, <<course_code, prereq_code, "prerequisite">>)
                 ELSE missing)

RECURSIVE check_symmetric(_, _, _, _, _, _)
check_symmetric(es, kind, course_code, refs, j, missing) ==
    IF j > Len(refs) THEN missing
    ELSE LET other_code == convert_master_id_to_code(refs[j])
         IN  check_symmetric(es, kind, course_code, refs, j + 1,
                 IF Truthy(other_code) /\ symmetric_missing(es, kind, course_code, other_code)
                 THEN Append(missing, <<course_code, other_code>>)
                 ELSE missing)

RECURSIVE check_relationships(_, _, _, _)
check_relationships(es, K, i, rep) ==
    IF i > Len(K) THEN rep
    ELSE LET d == K[i]
             c == d.course_code
         IN  check_relationships(es, K, i + 1,
                 IF ~Truthy(c) THEN rep
                 ELSE [rep EXCEPT
                         !.missing_prereqs =
                             check_forward(es, c, d.prerequisite_courses, 1,
                                 check_reverse(es, c, d.is_prerequisite_for, 1, @)),
                         !.missing_coreqs =
                             check_symmetric(es, "COREQUISITE", c, d.corequisites, 1, @),
                         !.missing_equivs =
                             check_symmetric(es, "EQUIVALENT", c, d.equivalencies, 1, @)])

verify_all_relationships(ns, es, K) ==
    check_relationships(es, K, 1,
        [NoReport EXCEPT !.missing_courses = check_courses_exist(ns, K, 1, <<>>)])

\* what the verifier's session.run calls (MATCH ... RETURN only) leave in the store
verifier_auto_repair(ns, es, K) ==
    LET G == create_prerequisites_from_list(Graph(ns, es, 0, TRUE), K)
    IN  [nodes |-> G.nodes, edges |-> G.edges]

verifier_store_effect(ns, es, K) == [nodes |-> ns, edges |-> es]

-----------------------------------------------------------------------------
(* State machine of the import run: main() of import_courses_complete.py,  *)
(* re-runs of the compiler passes, and the verifier script                 *)

NoQuery == [tool |-> "none"]
NoAnswer == [kind |-> "none"]

InitGraphVars ==
    /\ nodes = EmptyBag
    /\ edges = EmptyBag
    /\ req_counter = 0
    /\ pc = "idle"
    /\ runs = 0
    /\ runKind = "none"
    /\ prevNodes = EmptyBag
    /\ prevEdges = EmptyBag
    /\ report = NoReport
    /\ verified = FALSE

InitToolVars ==
    /\ courses = <<>>
    /\ query = NoQuery
    /\ answer = NoAnswer
    /\ catalogs = <<>>

InitWalkVars ==
    /\ stack = <<>>
    /\ visited = {}
    /\ chain = <<>>

Init ==
    /\ catalog \in CompilerCatalogs
    /\ InitGraphVars
    /\ InitToolVars
    /\ InitWalkVars

CurG == Graph(nodes, edges, req_counter, TRUE)

\* the store and the importer after a step; an exception ends the run
Commit(G, next) ==
    /\ nodes' = G.nodes
    /\ edges' = G.edges
    /\ req_counter' = G.ctr
    /\ pc' = IF G.ok THEN next ELSE "aborted"
    /\ verified' = FALSE
    /\ UNCHANGED <<catalog, runs, runKind, prevNodes, prevEdges, report>>
    /\ UNCHANGED toolVars
    /\ UNCHANGED walkVars

\* main(): clear_database, create_constraints, a new CompleteCourseImporter
StartMain ==
    /\ pc \in {"idle", "done", "aborted"}
    /\ runs < MaxRuns
    /\ nodes' = EmptyBag
    /\ edges' = EmptyBag
    /\ req_counter' = 0
    /\ pc' = "departments"
    /\ runs' = runs + 1
    /\ runKind' = "main"
    /\ prevNodes' = nodes
    /\ prevEdges' = edges
    /\ verified' = FALSE
    /\ UNCHANGED <<catalog, report>>
    /\ UNCHANGED toolVars
    /\ UNCHANGED walkVars

CreateDepartments ==
    /\ pc = "departments"
    /\ Commit(create_departments(CurG, catalog), "courses")

ImportCourses ==
    /\ pc = "courses"
    /\ Commit(import_courses(CurG, catalog), "ast")

CreatePrerequisitesFromAst ==
    /\ pc = "ast"
    /\ Commit(create_prerequisites_from_ast(CurG, catalog), "list")

CreatePrerequisitesFromList ==
    /\ pc = "list"
    /\ Commit(create_prerequisites_from_list(CurG, catalog), "isprereq")

CreateIsPrerequisiteFor ==
    /\ pc = "isprereq"
    /\ Commit(create_is_prerequisite_for(CurG, catalog), "coreq")

CreateCorequisites ==
    /\ pc = "coreq"
    /\ Commit(create_corequisites(CurG, catalog), "equiv")

CreateEquivalencies ==
    /\ pc = "equiv"
    /\ Commit(create_equivalencies(CurG, catalog),
              IF runKind = "main" THEN "programs" ELSE "done")

CreateProgramStructure ==
    /\ pc = "programs"
    /\ Commit(create_program_structure(CurG), "core")

\* link_core_courses, then the read-only verify_import / verify_relationships
LinkCoreCourses ==
    /\ pc = "core"
    /\ Commit(link_core_courses(CurG), "done")

\* the compiler passes run again on the importer of the finished run
Recompile ==
    /\ pc = "done"
    /\ runs < MaxRuns
    /\ pc' = "ast"
    /\ runs' = runs + 1
    /\ runKind' = "same"
    /\ prevNodes' = nodes
    /\ prevEdges' = edges
    /\ verified' = FALSE
    /\ UNCHANGED <<catalog, nodes, edges, req_counter, report>>
    /\ UNCHANGED toolVars
    /\ UNCHANGED walkVars

\* the compiler passes run again in a new process: a new importer, no clear
RecompileNewImporter ==
    /\ pc = "done"
    /\ runs < MaxRuns
    /\ pc' = "ast"
    /\ req_counter' = 0
    /\ runs' = runs + 1
    /\ runKind' = "new"
    /\ prevNodes' = nodes
    /\ prevEdges' = edges
    /\ verified' = FALSE
    /\ UNCHANGED <<catalog, nodes, edges, report>>
    /\ UNCHANGED toolVars
    /\ UNCHANGED walkVars

\* verify_relationships.py, run against the store as it is
VerifyAllRelationships ==
    /\ ~verified
    /\ report' = verify_all_relationships(nodes, edges, catalog)
    /\ nodes' = verifier_store_effect(nodes, edges, catalog).nodes
    /\ edges' = verifier_store_effect(nodes, edges, catalog).edges
    /\ verified' = TRUE
    /\ UNCHANGED <<catalog, req_counter, pc, runs, runKind, prevNodes, prevEdges>>
    /\ UNCHANGED toolVars
    /\ UNCHANGED walkVars

Next ==
    \/ StartMain
    \/ CreateDepartments
    \/ ImportCourses
    \/ CreatePrerequisitesFromAst
    \/ CreatePrerequisitesFromList
    \/ CreateIsPrerequisiteFor
    \/ CreateCorequisites
    \/ CreateEquivalencies
    \/ CreateProgramStructure
    \/ LinkCoreCourses
    \/ Recompile
    \/ RecompileNewImporter
    \/ VerifyAllRelationships

Spec == Init /\ [][Next]_vars

-----------------------------------------------------------------------------
(* Properties of the compiler and the verifier, under Spec *)

EdgeKinds ==
    {"REQUIRES", "OPTION", "HAS_REQUIREMENT", "COREQUISITE", "EQUIVALENT",
     "BELONGS_TO", "REQUIRES_STANDING", "REQUIRES_APPROVAL"}

\* MATCH ()-[r:kind]->() RETURN count(r)
KindCount(es, kind) ==
    BagCardinality([e \in {x \in DOMAIN es : x.kind = kind} |-> es[e]])

GroupIds(ns) == {n.key : n \in {x \in DOMAIN ns : x.label = "RequirementGroup"}}

\* a run of the compiler that started from a finished build has finished
SecondRunDone == pc = "done" /\ runs >= 2

SameStoreAsBefore ==
    /\ nodes = prevNodes
    /\ \A k \in EdgeKinds : KindCount(edges, k) = KindCount(prevEdges, k)

\* C1: a second run of the compiler on the unchanged catalog leaves the
\* store with the same nodes and the same number of edges of every kind,
\* and creates no new RequirementGroup id.
C1_SecondRunIdempotent == SecondRunDone => SameStoreAsBefore

\* Supporting fact for C1: the second run is idempotent when it starts from
\* a new importer (main() again, or the passes in a new process).
SecondRunIdempotentWithNewImporter ==
    (SecondRunDone /\ runKind \in {"main", "new"}) => SameStoreAsBefore

ReportZero(rep) ==
    /\ Len(rep.missing_courses) = 0
    /\ Len(rep.missing_prereqs) = 0
    /\ Len(rep.missing_coreqs) = 0
    /\ Len(rep.missing_equivs) = 0

\* C2: on a store freshly built by main() from the catalog, the verifier
\* reports zero missing courses, prerequisites, corequisites, equivalencies.
C2_FreshBuildVerifiesClean == (pc = "done" /\ verified) => ReportZero(report)

CatalogCodes(K) ==
    {K[i].course_code : i \in {j \in 1..Len(K) : Truthy(K[j].course_code)}}

DeclaredRefs(K) ==
    UNION { Range(K[i].prerequisite_courses) \cup Range(K[i].is_prerequisite_for)
            \cup Range(K[i].corequisites) \cup Range(K[i].equivalencies) :
            i \in {j \in 1..Len(K) : Truthy(K[j].course_code)} }

\* every declared reference that converts to a code names a catalog course
ReferencesResolve(K) ==
    \A m \in DeclaredRefs(K) :
        Truthy(convert_master_id_to_code(m)) =>
            convert_master_id_to_code(m) \in CatalogCodes(K)

\* Supporting fact for C2: the report is empty when every declared
\* reference names a course of the catalog.
FreshBuildVerifiesCleanWhenResolved ==
    (pc = "done" /\ verified /\ ReferencesResolve(catalog)) => ReportZero(report)

\* C9: a step of verify_all_relationships leaves the nodes and edges of the
\* graph store and the documents of the document store as they were.
C9_VerifyMutatesNothing ==
    [][(verified' /\ ~verified) =>
          (nodes' = nodes /\ edges' = edges /\ catalog' = catalog
           /\ courses' = courses)]_vars

\* the verifier ran on a built store and found something missing
C9_Witness ==
    /\ verified
    /\ pc = "done"
    /\ KindCount(edges, "REQUIRES") > 0
    /\ ~ReportZero(report)

\* declared (course, referenced code) pairs of one list of the documents
DeclaredPairs(K, pass) ==
    UNION { { <<K[i].course_code, convert_master_id_to_code(m)>> :
              m \in {r \in Range(PassRefs(pass, K[i])) :
                        Truthy(convert_master_id_to_code(r))} } :
            i \in {j \in 1..Len(K) : Truthy(K[j].course_code)} }

RequiresEdgeInStore(c, p) ==
    Edge("REQUIRES", CourseRef(c), CourseRef(p)) \in DOMAIN edges

GroupPathInStore(c, p) ==
    \E g \in GroupIds(nodes) :
        /\ Edge("HAS_REQUIREMENT", CourseRef(c), GroupRef(g)) \in DOMAIN edges
        /\ \E k \in {"REQUIRES", "OPTION"} :
              Edge(k, GroupRef(g), CourseRef(p)) \in DOMAIN edges

SymmetricEdgeInStore(kind, a, b) ==
    \/ Edge(kind, CourseRef(a), CourseRef(b)) \in DOMAIN edges
    \/ Edge(kind, CourseRef(b), CourseRef(a)) \in DOMAIN edges

ExpectedMissingPrereqs ==
    { <<pr[1], pr[2], "prerequisite">> :
        pr \in {q \in DeclaredPairs(catalog, "list") :
                   ~RequiresEdgeInStore(q[1], q[2]) /\ ~GroupPathInStore(q[1], q[2])} }
    \cup
    { <<pr[1], pr[2], "is_prerequisite_for">> :
        pr \in {q \in DeclaredPairs(catalog, "isprereq") :
                   ~RequiresEdgeInStore(q[2], q[1])} }

ExpectedMissingSymmetric(pass, kind) ==
    {q \in DeclaredPairs(catalog, pass) : ~SymmetricEdgeInStore(kind, q[1], q[2])}

-----------------------------------------------------------------------------
(* MongoDB courses collection: sync_courses_to_mongodb.py fills it,        *)
(* knowledge_base.py reads it                                              *)

\* find_one found nothing
NoDoc == Doc(None, None, NoAst, <<>>, <<>>, <<>>, <<>>)

First(S) == CHOOSE i \in S : \A j \in S : i <= j

sync_course_without_id_check(cs, course) ==
    LET existing == {i \in 1..Len(cs) :
                        cs[i].course_master_id = course.course_master_id}
    IN  IF existing # {}
        THEN [cs EXCEPT ![First(existing)] = course]
        ELSE Append(cs, course)

\* one iteration of the loop of sync_courses: skip, update in place or insert
sync_course(cs, course) ==
    IF ~Truthy(course.course_master_id)
    THEN cs
    ELSE LET existing == {i \in 1..Len(cs) :
                             cs[i].course_master_id = course.course_master_id}
         IN  IF existing # {}
             THEN [cs EXCEPT ![First(existing)] = course]
             ELSE Append(cs, course)

RECURSIVE sync_courses_from(_, _, _)
sync_courses_from(cs, K, i) ==
    IF i > Len(K) THEN cs
    ELSE sync_courses_from(sync_course(cs, K[i]), K, i + 1)

sync_courses(cs, K) == sync_courses_from(cs, K, 1)

\* find_one({"course_code": {"$regex": "^code$", "$options": "i"}})
get_course_by_code(cs, course_code) ==
    LET code == Upper(Strip(course_code))
        hits == {i \in 1..Len(cs) :
                    /\ cs[i].course_code # None
                    /\ Upper(cs[i].course_code) = code}
    IN  IF hits = {} THEN NoDoc ELSE cs[First(hits)]

\* find_one({"course_master_id": master_id})
get_course_by_master_id(cs, master_id) ==
    LET hits == {i \in 1..Len(cs) : cs[i].course_master_id = master_id}
    IN  IF hits = {} THEN NoDoc ELSE cs[First(hits)]

get_prerequisite_ast(cs, course_code) ==
    LET course == get_course_by_code(cs, course_code)
    IN  IF course # NoDoc THEN course.prerequisite_ast ELSE NoAst

-----------------------------------------------------------------------------
(* check_prerequisites_satisfied of prerequisite_tools.py                  *)

\* the marks that open an explanation entry (U+2713, U+2717 and the tilde)
CheckMark == "(check mark)"
Cross == "(cross mark)"
Tilde == "~"

Result(satisfied, explanation) ==
    [satisfied |-> satisfied, explanation |-> explanation]

\* all(r[0] for r in results)
RECURSIVE all_satisfied(_)
all_satisfied(results) ==
    IF results = <<>> THEN TRUE
    ELSE IF ~Head(results).satisfied THEN FALSE
    ELSE all_satisfied(Tail(results))

\* any(r[0] for r in results)
RECURSIVE any_satisfied(_)
any_satisfied(results) ==
    IF results = <<>> THEN FALSE
    ELSE IF Head(results).satisfied THEN TRUE
    ELSE any_satisfied(Tail(results))

\* sep.join(r[1] for r in results)
RECURSIVE join(_, _)
join(sep, results) ==
    IF results = <<>> THEN <<>>
    ELSE IF Len(results) = 1 THEN Head(results).explanation
    ELSE Head(results).explanation \o <<sep>> \o join(sep, Tail(results))

course_name(cs, course_master_id) ==
    LET prereq_course == get_course_by_master_id(cs, course_master_id)
    IN  IF prereq_course # NoDoc THEN prereq_course.course_code
        ELSE course_master_id

course_result_lenient(node, completed_master_ids, cs) ==
    IF \/ node.id \in completed_master_ids
       \/ get_course_by_master_id(cs, node.id) = NoDoc
    THEN Result(TRUE, <<CheckMark, " ">> \o course_name(cs, node.id))
    ELSE Result(FALSE, <<Cross, " ">> \o course_name(cs, node.id)
                           \o <<" (NOT completed)">>)

\* op == "COURSE"
course_result(node, completed_master_ids, cs) ==
    IF node.id \in completed_master_ids
    THEN Result(TRUE, <<CheckMark, " ">> \o course_name(cs, node.id))
    ELSE Result(FALSE, <<Cross, " ">> \o course_name(cs, node.id)
                           \o <<" (NOT completed)">>)

and_result_any(results) ==
    Result(any_satisfied(results), <<"(">> \o join(" AND ", results) \o <<")">>)

\* the results up to and including the first one that is not satisfied
RECURSIVE until_unsatisfied(_)
until_unsatisfied(results) ==
    IF results = <<>> THEN <<>>
    ELSE IF ~Head(results).satisfied THEN <<Head(results)>>
    ELSE <<Head(results)>> \o until_unsatisfied(Tail(results))

and_result_short_circuit(results) ==
    Result(all_satisfied(results),
           <<"(">> \o join(" AND ", until_unsatisfied(results)) \o <<")">>)

\* op == "AND"
and_result(results) ==
    Result(all_satisfied(results), <<"(">> \o join(" AND ", results) \o <<")">>)

\* op == "OR"
or_result(results) ==
    Result(any_satisfied(results), <<"(">> \o join(" OR ", results) \o <<")">>)

concurrent_result_as_course(node, completed_master_ids, cs) ==
    course_result(node, completed_master_ids, cs)

\* op == "CONCURRENT"
concurrent_result(node, completed_master_ids, cs) ==
    Result(TRUE, <<Tilde, " ">> \o course_name(cs, node.id)
                     \o <<" (can be taken concurrently)">>)

\* op in STANDING, APPROVAL, EXEMPTION, EXTERNAL_CERT
gate_result(node) ==
    CASE node.op = "STANDING" ->
             Result(TRUE, <<Tilde, " ">> \o node.id \o <<" standing required">>)
      [] node.op = "APPROVAL" ->
             Result(TRUE, <<Tilde, " ">> \o node.id \o <<" approval required">>)
      [] node.op = "EXEMPTION" ->
             Result(TRUE, <<Tilde, " Exemption possible">>)
      [] node.op = "EXTERNAL_CERT" ->
             Result(TRUE, <<Tilde, " ">> \o node.id \o <<" required">>)

RECURSIVE evaluate_prereq_ast(_, _, _)
evaluate_prereq_ast(node, completed_master_ids, cs) ==
    IF NodeFalsy(node) THEN Result(TRUE, <<"No prerequisites">>)
    ELSE LET results == [i \in 1..Len(node.args) |->
                 evaluate_prereq_ast(node.args[i], completed_master_ids, cs)]
         IN  CASE node.op = "COURSE" ->
                      course_result(node, completed_master_ids, cs)
               [] node.op = "AND" -> and_result(results)
               [] node.op = "OR" -> or_result(results)
               [] node.op = "CONCURRENT" ->
                      concurrent_result(node, completed_master_ids, cs)
               [] node.op \in {"STANDING", "APPROVAL", "EXEMPTION",
                               "EXTERNAL_CERT"} -> gate_result(node)
               [] OTHER -> Result(TRUE, <<"Unknown prerequisite type">>)

\* the loop that builds completed_master_ids
completed_ids(cs, completed_courses) ==
    {get_course_by_code(cs, completed_courses[i]).course_master_id :
        i \in {j \in 1..Len(completed_courses) :
                  get_course_by_code(cs, completed_courses[j]) # NoDoc}}

Answer(kind, course, satisfied, explanation, ids) ==
    [kind |-> kind, course_code |-> course, satisfied |-> satisfied,
     explanation |-> explanation, completed_master_ids |-> ids]

NoPrerequisitesText == <<"No prerequisites required. You can take this course!">>

no_prerequisites_answer_unsatisfied(course) ==
    Answer("no_prerequisites", course.course_code, FALSE,
           NoPrerequisitesText, {})

\* the return of `if not prereq_ast`
no_prerequisites_answer(course) ==
    Answer("no_prerequisites", course.course_code, TRUE,
           NoPrerequisitesText, {})

check_prerequisites_satisfied(cs, course_code_arg, completed_courses_arg) ==
    LET course_code == Upper(Strip(course_code_arg))
        completed_courses == [i \in 1..Len(completed_courses_arg) |->
                                 Upper(Strip(completed_courses_arg[i]))]
        course == get_course_by_code(cs, course_code)
        prereq_ast == get_prerequisite_ast(cs, course_code)
        completed_master_ids == completed_ids(cs, completed_courses)
        r == evaluate_prereq_ast(prereq_ast, completed_master_ids, cs)
    IN  IF course = NoDoc
        THEN Answer("not_found", course_code, FALSE, <<>>, {})
        ELSE IF NodeFalsy(prereq_ast)
        THEN no_prerequisites_answer(course)
        ELSE Answer("evaluated", course.course_code, r.satisfied,
                    r.explanation, completed_master_ids)

-----------------------------------------------------------------------------
(* The evaluator on a synced collection                                    *)

M4980 == <<"COURSE:", "CSCE", "_", "4980">>

CourseLeaves == {Course(M1001), Course(M1101), Course(M9999), Course(None)}

GateLeaves ==
    {Concurrent(M1101), Standing(<<"junior">>), Approval(<<"instructor">>),
     Exemption, ExternalCert(<<"IELTS">>)}

UnknownLeaf == Node("MIN_GRADE", None, <<>>)

\* children of the one-level AND / OR nodes
FlatArgs ==
    {Course(M1001), Course(M9999), Course(None), Concurrent(M1101),
     Standing(<<"junior">>), Exemption}

\* children of the two-level AND / OR nodes
NestedArgs ==
    {Course(M1001), Course(M1101),
     And(<<Course(M1001), Course(M1101)>>), Or(<<Course(M1001), Course(M1101)>>),
     And(<<>>), Or(<<>>)}

DeepAsts ==
    {And(<<Or(<<And(<<Course(M1001), Course(M1101)>>), Course(M9999)>>),
           Course(M1101)>>),
     Or(<<And(<<Or(<<>>), Course(M1001)>>),
          And(<<Approval(<<"instructor">>), ExternalCert(<<"IELTS">>),
                Course(M1101)>>)>>),
     And(<<NoAst, Course(M1001)>>)}

EvalAsts ==
    {NoAst, UnknownLeaf} \cup CourseLeaves \cup GateLeaves \cup DeepAsts
    \cup {Node(op, None, args) :
             op \in {"AND", "OR"},
             args \in SeqsUpTo(FlatArgs, MaxArgs) \cup SeqsUpTo(NestedArgs, MaxArgs)}

\* courses_master.json with one document without course_code and one
\* without course_master_id
EvalCatalogs ==
    { << Doc(C1001, M1001, NoAst, <<>>, <<>>, <<>>, <<>>),
         Doc(C1101, M1101, NoAst, <<M1001>>, <<>>, <<>>, <<>>),
         Doc(C2303, M2303, ast, <<M1101>>, <<>>, <<>>, <<>>),
         Doc(None, M4980, Course(M1001), <<M1001>>, <<>>, <<>>, <<>>),
         Doc(C9999, None, NoAst, <<>>, <<>>, <<>>, <<>>) >> :
        ast \in EvalAsts }

CodeArgs == {C2303, <<" ", "csce", " ", "2303">>, C1001, C9999}

CompletedArgs == {C1001, <<"csce", " ", "1101", " ">>, C9999}

InitEval ==
    /\ catalog \in EvalCatalogs
    /\ InitGraphVars
    /\ InitToolVars
    /\ InitWalkVars

\* python sync_courses_to_mongodb.py
SyncCourses ==
    /\ answer = NoAnswer
    /\ courses' = sync_courses(courses, catalog)
    /\ UNCHANGED <<catalog, query, answer, catalogs>>
    /\ UNCHANGED graphVars
    /\ UNCHANGED walkVars

\* the agent takes the tool's return value; no call is in flight
\* afterwards and the locals of the call are gone
ReturnToAgent ==
    /\ answer # NoAnswer
    /\ answer.kind # "running"
    /\ query' = NoQuery
    /\ answer' = NoAnswer
    /\ stack' = <<>>
    /\ visited' = {}
    /\ chain' = <<>>
    /\ UNCHANGED <<catalog, courses, catalogs>>
    /\ UNCHANGED graphVars

CheckPrerequisitesSatisfied ==
    \E course_code \in CodeArgs :
        \E completed_courses \in SeqsUpTo(CompletedArgs, MaxCompleted) :
            /\ answer = NoAnswer
            /\ query' = [tool |-> "check_prerequisites_satisfied",
                         course_code |-> course_code,
                         completed_courses |-> completed_courses]
            /\ answer' = check_prerequisites_satisfied(courses, course_code,
                                                       completed_courses)
            /\ UNCHANGED <<catalog, courses, catalogs>>
            /\ UNCHANGED graphVars
            /\ UNCHANGED walkVars

NextEval ==
    \/ SyncCourses
    \/ CheckPrerequisitesSatisfied
    \/ ReturnToAgent

SpecEval == InitEval /\ [][NextEval]_vars

-----------------------------------------------------------------------------
(* Properties of the evaluator, under SpecEval *)

Evaluated == answer.kind = "evaluated"

\* the AST the last query was about
QueriedAst == get_prerequisite_ast(courses, query.course_code)

Satisfied(node) ==
    evaluate_prereq_ast(node, answer.completed_master_ids, courses).satisfied

Explanation(node) ==
    evaluate_prereq_ast(node, answer.completed_master_ids, courses).explanation

\* C4: the verdict is the evaluation of the AST's root; an AND node at any
\* depth is satisfied iff every child is (so with zero children it is), an OR
\* node iff at least one child is (so with zero children it is not); children
\* are evaluated recursively.
C4_AndOrSemantics ==
    Evaluated =>
        /\ answer.satisfied = Satisfied(QueriedAst)
        /\ \A n \in SubNodes(QueriedAst) :
              /\ n.op = "AND" =>
                    (Satisfied(n) <=>
                        \A i \in 1..Len(n.args) : Satisfied(n.args[i]))
              /\ n.op = "OR" =>
                    (Satisfied(n) <=>
                        \E i \in 1..Len(n.args) : Satisfied(n.args[i]))

\* AND of two courses with only the first one completed is unsatisfied
C4_Witness ==
    /\ Evaluated
    /\ QueriedAst = And(<<Course(M1001), Course(M1101)>>)
    /\ answer.completed_master_ids = {M1001}
    /\ ~answer.satisfied

\* AND and OR without children, nested under an OR
AndOrWithoutChildrenReached ==
    /\ Evaluated
    /\ QueriedAst = Or(<<Or(<<>>), And(<<>>)>>)
    /\ answer.satisfied

\* C5: a COURSE leaf at any depth is satisfied iff its master id is in the
\* completed id set, whether or not a document with that id exists.
C5_CourseLeafIsMembership ==
    Evaluated =>
        \A n \in SubNodes(QueriedAst) :
            n.op = "COURSE" =>
                (Satisfied(n) <=> n.id \in answer.completed_master_ids)

\* a completed leaf next to a leaf that names no document: the verdict of
\* the AND is negative, the completed code was given in lower case
C5_Witness ==
    /\ Evaluated
    /\ QueriedAst = And(<<Course(M1001), Course(M9999)>>)
    /\ get_course_by_master_id(courses, M9999) = NoDoc
    /\ query.completed_courses = <<C1001, <<"csce", " ", "1101", " ">>>>
    /\ answer.completed_master_ids = {M1001, M1101}
    /\ Satisfied(Course(M1001))
    /\ ~answer.satisfied

GateOps == {"CONCURRENT", "STANDING", "APPROVAL", "EXEMPTION", "EXTERNAL_CERT"}

\* C6: CONCURRENT, STANDING, APPROVAL, EXEMPTION and EXTERNAL_CERT nodes are
\* satisfied whatever was completed, and their explanation entry opens with
\* the tilde, which is neither of the two marks that open a COURSE entry.
C6_GatesAreNotVerified ==
    Evaluated =>
        \A n \in SubNodes(QueriedAst) :
            /\ n.op \in GateOps =>
                  /\ Satisfied(n)
                  /\ Head(Explanation(n)) = Tilde
            /\ n.op = "COURSE" =>
                  /\ Head(Explanation(n)) = IF Satisfied(n) THEN CheckMark
                                            ELSE Cross
                  /\ Head(Explanation(n)) # Tilde

\* nothing completed, the concurrent course not completed either
C6_Witness ==
    /\ Evaluated
    /\ QueriedAst = And(<<Concurrent(M1101), Standing(<<"junior">>)>>)
    /\ answer.completed_master_ids = {}
    /\ answer.satisfied
    /\ answer.explanation =
           <<"(", Tilde, " ", "CSCE", " ", "1101", " (can be taken concurrently)",
             " AND ", Tilde, " ", "junior", " standing required", ")">>

CheckQuery == query.tool = "check_prerequisites_satisfied"

\* C7: for a course without prerequisite AST the answer is satisfied with a
\* no-prerequisites explanation, whatever completed list was passed; the
\* evaluation of an absent node is satisfied for every completed id set.
C7_NoAstIsSatisfied ==
    /\ (/\ CheckQuery
        /\ get_course_by_code(courses, query.course_code) # NoDoc
        /\ NodeFalsy(QueriedAst))
       => /\ answer.kind = "no_prerequisites"
          /\ answer.satisfied
          /\ answer.explanation = NoPrerequisitesText
    /\ \A ids \in SUBSET {M1001, M1101, M2303} :
          evaluate_prereq_ast(NoAst, ids, courses) =
              Result(TRUE, <<"No prerequisites">>)

C7_Witness ==
    /\ CheckQuery
    /\ query.course_code = C1001
    /\ query.completed_courses = <<C9999, C1001>>
    /\ NodeFalsy(QueriedAst)
    /\ answer.kind = "no_prerequisites"
    /\ answer.satisfied

-----------------------------------------------------------------------------
(* check_if_course_required_for of prerequisite_tools.py                   *)

\* get_prereq_path returned None
NoPath == <<>>

RECURSIVE get_prereq_path(_, _, _, _, _)
RECURSIVE search_prereqs(_, _, _, _, _, _)

search_first_prereq_only(cs, prereq_ids, j, target_id, visited_copy, current_path) ==
    IF j > Len(prereq_ids) THEN NoPath
    ELSE get_prereq_path(cs, prereq_ids[j], target_id, visited_copy, current_path)

\* for prereq_id in prereq_ids: the first child call that returns a path wins
search_prereqs(cs, prereq_ids, j, target_id, visited_copy, current_path) ==
    IF j > Len(prereq_ids) THEN NoPath
    ELSE LET result == get_prereq_path(cs, prereq_ids[j], target_id,
                                       visited_copy, current_path)
         IN  IF result # NoPath THEN result
             ELSE search_prereqs(cs, prereq_ids, j + 1, target_id,
                                 visited_copy, current_path)

\* every child call receives visited.copy(): the set holds the ancestors only
get_prereq_path(cs, course_master_id, target_id, visited_set, path) ==
    IF course_master_id \in visited_set THEN NoPath
    ELSE LET course == get_course_by_master_id(cs, course_master_id)
             current_path == Append(path, course.course_code)
         IN  IF course = NoDoc THEN NoPath
             ELSE IF course_master_id = target_id THEN current_path
             ELSE search_prereqs(cs, course.prerequisite_courses, 1, target_id,
                                 visited_set \cup {course_master_id},
                                 current_path)

PathAnswer(kind, path) == [kind |-> kind, path |-> path]

\* the YES text reads path[1]: an IndexError when the chain has one element
check_if_course_required_for(cs, target_course_code, check_course_code) ==
    LET target_course == get_course_by_code(cs, Upper(Strip(target_course_code)))
        check_course == get_course_by_code(cs, Upper(Strip(check_course_code)))
        path == get_prereq_path(cs, target_course.course_master_id,
                                check_course.course_master_id, {}, <<>>)
    IN  IF target_course = NoDoc \/ check_course = NoDoc
        THEN PathAnswer("not_found", NoPath)
        ELSE IF path = NoPath THEN PathAnswer("no", path)
        ELSE IF Len(path) < 2 THEN PathAnswer("raised", path)
        ELSE PathAnswer("yes", path)

-----------------------------------------------------------------------------
(* The stores the traversals read: the whole import run as one step        *)

Then(G, H) == IF G.ok THEN H ELSE G

\* main() of import_courses_complete.py: clear_database, then the passes
main(K) ==
    LET g0 == Graph(EmptyBag, EmptyBag, 0, TRUE)
        g1 == create_departments(g0, K)
        g2 == Then(g1, import_courses(g1, K))
        g3 == Then(g2, create_prerequisites_from_ast(g2, K))
        g4 == Then(g3, create_prerequisites_from_list(g3, K))
        g5 == Then(g4, create_is_prerequisite_for(g4, K))
        g6 == Then(g5, create_corequisites(g5, K))
        g7 == Then(g6, create_equivalencies(g6, K))
        g8 == Then(g7, create_program_structure(g7))
    IN  Then(g8, link_core_courses(g8))

\* order of two characters runs of a course code
TokRank(t) ==
    CASE t = " " -> 0
      [] t = "1001" -> 1
      [] t = "1101" -> 2
      [] t = "2303" -> 3
      [] t = "4980" -> 4
      [] t = "9999" -> 5
      [] t = "CSCE" -> 6
      [] OTHER -> 7

\* string comparison of ORDER BY
RECURSIVE CodeLess(_, _)
CodeLess(a, b) ==
    IF b = <<>> THEN FALSE
    ELSE IF a = <<>> THEN TRUE
    ELSE IF TokRank(Head(a)) # TokRank(Head(b))
         THEN TokRank(Head(a)) < TokRank(Head(b))
    ELSE CodeLess(Tail(a), Tail(b))

RECURSIVE OrderBy(_)
OrderBy(S) ==
    IF S = {} THEN <<>>
    ELSE LET least == CHOOSE a \in S : \A b \in S \ {a} : CodeLess(a, b)
         IN  <<least>> \o OrderBy(S \ {least})

\* RETURN DISTINCT p.code ... ORDER BY p.code over the direct REQUIRES edges
\* and the REQUIRES / OPTION edges of the course's requirement groups
get_prerequisites_simple(es, course_code) ==
    OrderBy({e.to.key : e \in {x \in DOMAIN es :
                /\ x.to.label = "Course"
                /\ \/ DirectEdge(es, "REQUIRES", course_code, x.to.key)
                   \/ GroupPath(es, course_code, x.to.key)}})

-----------------------------------------------------------------------------
(* The recursive traversals, one call or loop iteration per step:          *)
(* get_prereqs_recursive of get_all_prerequisites_recursive over the       *)
(* documents, _build_prereq_tree of get_prerequisite_chain over the graph  *)

WalkCatalogs ==
    { << Doc(C1001, M1001, NoAst, p1, <<>>, <<>>, <<>>),
         Doc(C1101, M1101, NoAst, p2, <<>>, <<>>, <<>>),
         Doc(C2303, M2303, ast3, p3, <<>>, <<>>, <<>>) >> :
        p1 \in {<<>>, <<M1001>>, <<M2303>>},
        p2 \in {<<>>, <<M1001>>, <<M2303, M1001>>, <<M9999, M1001>>},
        p3 \in {<<M1101>>, <<M1101, M1001>>, <<M1001, M1101>>, <<M9999>>},
        ast3 \in {NoAst, Or(<<Course(M1101), Course(M2303)>>)} }

WalkCodeArgs == {C1001, C1101, <<" ", "csce", " ", "2303">>, C9999}

Frame(node, idx) == [node |-> node, idx |-> idx]

Top == stack[Len(stack)]

Running == answer.kind = "running"

DocWalk == Running /\ query.tool = "get_all_prerequisites_recursive"

TreeWalk == Running /\ query.tool = "get_prerequisite_chain"

never_visited(id, visited_set) == FALSE

\* `if course_master_id in visited` / `if course_code in visited`
already_visited(id, visited_set) == id \in visited_set

\* the frame below the top has moved on to its next loop iteration
Advance(stk) == [stk EXCEPT ![Len(stk)].idx = @ + 1]

keep_all_prereqs(all_prereqs, seen) == all_prereqs

\* the loop that removes duplicates, keeping the first occurrence
RECURSIVE unique_prereqs(_, _)
unique_prereqs(all_prereqs, seen) ==
    IF all_prereqs = <<>> THEN <<>>
    ELSE IF Head(all_prereqs) \in seen
         THEN unique_prereqs(Tail(all_prereqs), seen)
    ELSE <<Head(all_prereqs)>>
         \o unique_prereqs(Tail(all_prereqs), seen \cup {Head(all_prereqs)})

WalkAnswer(kind, result) == [kind |-> kind, result |-> result]

InitWalk ==
    /\ catalog \in WalkCatalogs
    /\ InitGraphVars
    /\ InitToolVars
    /\ InitWalkVars

\* python import_courses_complete.py, from clear_database to the last pass
RunImport ==
    /\ answer = NoAnswer
    /\ nodes' = main(catalog).nodes
    /\ edges' = main(catalog).edges
    /\ req_counter' = main(catalog).ctr
    /\ UNCHANGED <<catalog, pc, runs, runKind, prevNodes, prevEdges, report,
                   verified>>
    /\ UNCHANGED toolVars
    /\ UNCHANGED walkVars

CheckIfCourseRequiredFor ==
    \E target_course_code \in WalkCodeArgs :
        \E check_course_code \in WalkCodeArgs :
            /\ answer = NoAnswer
            /\ query' = [tool |-> "check_if_course_required_for",
                         target_course_code |-> target_course_code,
                         check_course_code |-> check_course_code]
            /\ answer' = check_if_course_required_for(
                             courses, target_course_code, check_course_code)
            /\ UNCHANGED <<catalog, courses, catalogs>>
            /\ UNCHANGED graphVars
            /\ UNCHANGED walkVars

\* get_all_prerequisites_recursive up to the first call of
\* get_prereqs_recursive, which finds the course it was given
GetAllPrerequisitesRecursive ==
    \E course_code \in WalkCodeArgs :
        LET course == get_course_by_code(courses, course_code)
        IN  /\ answer = NoAnswer
            /\ query' = [tool |-> "get_all_prerequisites_recursive",
                         course_code |-> course_code]
            /\ IF course = NoDoc
               THEN /\ answer' = WalkAnswer("not_found", <<>>)
                    /\ UNCHANGED walkVars
               ELSE /\ answer' = WalkAnswer("running", <<>>)
                    /\ visited' = {course.course_master_id}
                    /\ stack' = <<Frame(course.course_master_id, 1)>>
                    /\ chain' = <<>>
            /\ UNCHANGED <<catalog, courses, catalogs>>
            /\ UNCHANGED graphVars

\* prerequisite_courses of the course of the top frame
PrereqIds == get_course_by_master_id(courses, Top.node).prerequisite_courses

\* the loop body when prereq_course is None
SkipMissingPrereq ==
    /\ DocWalk
    /\ stack # <<>>
    /\ Top.idx <= Len(PrereqIds)
    /\ get_course_by_master_id(courses, PrereqIds[Top.idx]) = NoDoc
    /\ stack' = Advance(stack)
    /\ UNCHANGED <<visited, chain>>
    /\ UNCHANGED <<catalog, courses, query, answer, catalogs>>
    /\ UNCHANGED graphVars

\* the loop body when the nested call returns [] at its visited check
AppendVisitedPrereq ==
    /\ DocWalk
    /\ stack # <<>>
    /\ Top.idx <= Len(PrereqIds)
    /\ LET prereq_course == get_course_by_master_id(courses, PrereqIds[Top.idx])
       IN  /\ prereq_course # NoDoc
           /\ already_visited(PrereqIds[Top.idx], visited)
           /\ chain' = Append(chain, prereq_course.course_code)
    /\ stack' = Advance(stack)
    /\ UNCHANGED visited
    /\ UNCHANGED <<catalog, courses, query, answer, catalogs>>
    /\ UNCHANGED graphVars

\* the loop body when the nested call enters its own loop
DescendPrereq ==
    /\ DocWalk
    /\ stack # <<>>
    /\ Len(stack) < MaxStack
    /\ Top.idx <= Len(PrereqIds)
    /\ LET prereq_course == get_course_by_master_id(courses, PrereqIds[Top.idx])
       IN  /\ prereq_course # NoDoc
           /\ ~already_visited(PrereqIds[Top.idx], visited)
           /\ chain' = Append(chain, prereq_course.course_code)
    /\ visited' = visited \cup {PrereqIds[Top.idx]}
    /\ stack' = Append(Advance(stack), Frame(PrereqIds[Top.idx], 1))
    /\ UNCHANGED <<catalog, courses, query, answer, catalogs>>
    /\ UNCHANGED graphVars

\* return all_prereqs; the outermost return removes the duplicates
ReturnPrereqs ==
    /\ DocWalk
    /\ stack # <<>>
    /\ Top.idx > Len(PrereqIds)
    /\ stack' = SubSeq(stack, 1, Len(stack) - 1)
    /\ answer' = IF Len(stack) = 1
                 THEN WalkAnswer("done", unique_prereqs(chain, {}))
                 ELSE answer
    /\ UNCHANGED <<visited, chain>>
    /\ UNCHANGED <<catalog, courses, query, catalogs>>
    /\ UNCHANGED graphVars

\* get_prerequisite_chain up to the first query of _build_prereq_tree; the
\* server either runs the text of get_prerequisites_simple, whose WHERE
\* follows an UNWIND, or rejects it
GetPrerequisiteChain ==
    \E course_code \in WalkCodeArgs \cup {C2303} :
        \E rejected \in BOOLEAN :
            /\ answer = NoAnswer
            /\ query' = [tool |-> "get_prerequisite_chain",
                         course_code |-> course_code]
            /\ visited' = {course_code}
            /\ IF ~HasCourse(nodes, course_code)
               THEN /\ answer' = WalkAnswer("done", <<>>)
                    /\ UNCHANGED <<stack, chain>>
               ELSE IF rejected
               THEN /\ answer' = WalkAnswer("raised", <<course_code>>)
                    /\ chain' = <<course_code>>
                    /\ UNCHANGED stack
               ELSE /\ answer' = WalkAnswer("running", <<>>)
                    /\ chain' = <<course_code>>
                    /\ stack' = <<Frame(course_code, 1)>>
            /\ UNCHANGED <<catalog, courses, catalogs>>
            /\ UNCHANGED graphVars

\* rows of get_prerequisites_simple for the course of the top frame
Prereqs == get_prerequisites_simple(edges, Top.node)

\* the nested _build_prereq_tree returns at its visited check
SkipVisitedTree ==
    /\ TreeWalk
    /\ stack # <<>>
    /\ Top.idx <= Len(Prereqs)
    /\ already_visited(Prereqs[Top.idx], visited)
    /\ stack' = Advance(stack)
    /\ UNCHANGED <<visited, chain>>
    /\ UNCHANGED <<catalog, courses, query, answer, catalogs>>
    /\ UNCHANGED graphVars

\* the nested _build_prereq_tree appends its course and enters its loop
DescendTree ==
    /\ TreeWalk
    /\ stack # <<>>
    /\ Len(stack) < MaxStack
    /\ Top.idx <= Len(Prereqs)
    /\ ~already_visited(Prereqs[Top.idx], visited)
    /\ visited' = visited \cup {Prereqs[Top.idx]}
    /\ IF HasCourse(nodes, Prereqs[Top.idx])
       THEN /\ chain' = Append(chain, Prereqs[Top.idx])
            /\ stack' = Append(Advance(stack), Frame(Prereqs[Top.idx], 1))
       ELSE /\ stack' = Advance(stack)
            /\ UNCHANGED chain
    /\ UNCHANGED <<catalog, courses, query, answer, catalogs>>
    /\ UNCHANGED graphVars

\* the loop of _build_prereq_tree is exhausted; the outermost return hands
\* the chain to get_prerequisite_chain
ReturnTree ==
    /\ TreeWalk
    /\ stack # <<>>
    /\ Top.idx > Len(Prereqs)
    /\ stack' = SubSeq(stack, 1, Len(stack) - 1)
    /\ answer' = IF Len(stack) = 1 THEN WalkAnswer("done", chain) ELSE answer
    /\ UNCHANGED <<visited, chain>>
    /\ UNCHANGED <<catalog, courses, query, catalogs>>
    /\ UNCHANGED graphVars

\* the steps of a call that is running
WalkStep ==
    \/ SkipMissingPrereq
    \/ AppendVisitedPrereq
    \/ DescendPrereq
    \/ ReturnPrereqs
    \/ SkipVisitedTree
    \/ DescendTree
    \/ ReturnTree

NextWalk ==
    \/ SyncCourses
    \/ RunImport
    \/ CheckIfCourseRequiredFor
    \/ GetAllPrerequisitesRecursive
    \/ GetPrerequisiteChain
    \/ SkipMissingPrereq
    \/ AppendVisitedPrereq
    \/ DescendPrereq
    \/ ReturnPrereqs
    \/ SkipVisitedTree
    \/ DescendTree
    \/ ReturnTree
    \/ ReturnToAgent

\* a call that was made keeps executing: Python runs it to its return
SpecWalk == InitWalk /\ [][NextWalk]_vars /\ WF_vars(WalkStep)

-----------------------------------------------------------------------------
(* Properties of the traversals, under SpecWalk *)

StoreIds == {courses[i].course_master_id : i \in 1..Len(courses)}

\* the documents that a document's prerequisite_courses name
Links(m) ==
    Range(get_course_by_master_id(courses, m).prerequisite_courses)
        \cap StoreIds

RECURSIVE ReachFrom(_)
ReachFrom(S) ==
    LET T == S \cup UNION {Links(m) : m \in S}
    IN  IF T = S THEN S ELSE ReachFrom(T)

TreeWalkOnCycleDone ==
    /\ query.tool = "get_prerequisite_chain"
    /\ answer.kind = "done"
    /\ DirectEdge(edges, "REQUIRES", C1101, C2303)
    /\ DirectEdge(edges, "REQUIRES", C2303, C1101)
    /\ Len(answer.result) = 3

\* a traversal never holds more frames than there are courses
StackStaysSmall == Len(stack) <= 3

PathQuery ==
    /\ query.tool = "check_if_course_required_for"
    /\ answer.kind # "not_found"

FromId == get_course_by_code(courses, query.target_course_code).course_master_id

TargetId == get_course_by_code(courses, query.check_course_code).course_master_id

\* p names documents that start at from, end at to and are linked one to the
\* next by prerequisite_courses
ValidChain(p, from, to) ==
    \E ms \in [1..Len(p) -> StoreIds] :
        /\ ms[1] = from
        /\ ms[Len(p)] = to
        /\ \A i \in 1..Len(p) :
              get_course_by_master_id(courses, ms[i]).course_code = p[i]
        /\ \A i \in 1..(Len(p) - 1) :
              ms[i + 1] \in
                  Range(get_course_by_master_id(courses, ms[i]).prerequisite_courses)

\* C8: when both courses are in the store, get_prereq_path returns a chain
\* iff the target is reachable from the start through prerequisite_courses
\* links of documents in the store, and the chain returned starts at the
\* start, ends at the target and follows the links; otherwise it returns
\* not-found, on cyclic catalogs too.
C8_PathIffReachable ==
    PathQuery =>
        /\ (answer.path # NoPath) <=> (TargetId \in ReachFrom({FromId}))
        /\ answer.path # NoPath => ValidChain(answer.path, FromId, TargetId)

\* CSCE 2303 -> CSCE 1101 -> CSCE 1001
C8_Witness ==
    /\ PathQuery
    /\ query.target_course_code = <<" ", "csce", " ", "2303">>
    /\ query.check_course_code = C1001
    /\ get_course_by_master_id(courses, M2303).prerequisite_courses = <<M1101>>
    /\ get_course_by_master_id(courses, M1101).prerequisite_courses
           = <<M9999, M1001>>
    /\ answer.path = <<C2303, C1101, C1001>>
    /\ answer.kind = "yes"

\* not-found on a cycle that does not contain the target
PathNotFoundOnCycle ==
    /\ PathQuery
    /\ query.target_course_code = C1001
    /\ query.check_course_code = C1101
    /\ get_course_by_master_id(courses, M1001).prerequisite_courses = <<M2303>>
    /\ get_course_by_master_id(courses, M2303).prerequisite_courses = <<M1001, M1101>>
    /\ get_course_by_master_id(courses, M1101).prerequisite_courses = <<>>

-----------------------------------------------------------------------------
(* Shape of the compiled store, under Spec *)

Symmetric(es, kind) ==
    \A e \in DOMAIN es :
        e.kind = kind => HasEdge(es, kind, e.to, e.from)

\* C11: once a compilation run has completed, every COREQUISITE edge a -> b
\* has its reverse b -> a, whether it came from a CONCURRENT node, from the
\* corequisites list, or from both.
C11_CorequisiteSymmetric == pc = "done" => Symmetric(edges, "COREQUISITE")

HasConcurrent(K) ==
    \E i \in 1..Len(K) :
        \E n \in SubNodes(K[i].prerequisite_ast) : n.op = "CONCURRENT"

\* the edges of the corequisites and equivalencies lists alone are symmetric
SymmetricFromLists ==
    /\ ~HasConcurrent(catalog) => Symmetric(edges, "COREQUISITE")
    /\ Symmetric(edges, "EQUIVALENT")

-----------------------------------------------------------------------------
(* The compiler passes called one by one, in any order, any number of      *)
(* times, on importers old and new                                         *)

\* value of req_counter beyond which no further pass is started
MaxReqCounter == 4

Passes ==
    {"departments", "courses", "ast", "list", "isprereq", "coreq", "equiv",
     "programs", "core"}

\* one method of CompleteCourseImporter
ApplyPass(G, pass, K) ==
    CASE pass = "departments" -> create_departments(G, K)
      [] pass = "courses" -> import_courses(G, K)
      [] pass = "ast" -> create_prerequisites_from_ast(G, K)
      [] pass = "list" -> create_prerequisites_from_list(G, K)
      [] pass = "isprereq" -> create_is_prerequisite_for(G, K)
      [] pass = "coreq" -> create_corequisites(G, K)
      [] pass = "equiv" -> create_equivalencies(G, K)
      [] pass = "programs" -> create_program_structure(G)
      [] pass = "core" -> link_core_courses(G)

PassCatalogs ==
    {K \in CompilerCatalogs :
        /\ K[1].is_prerequisite_for = <<M1101>>
        /\ K[1].equivalencies = <<M1101>>
        /\ K[2].prerequisite_ast = Course(M2303)
        /\ K[3].prerequisite_ast \in Asts2303 \ {NoAst, Course(M1101), Concurrent(M1101)}
        /\ K[3].prerequisite_courses = <<M1101, M9999>>
        /\ Len(K) = 3 \/ K[4].course_code = C9999}

InitPasses ==
    /\ catalog \in PassCatalogs
    /\ InitGraphVars
    /\ InitToolVars
    /\ InitWalkVars

\* a pass runs to its end or to the exception that ends it; what it wrote
\* before stays in the store
RunPass ==
    \E pass \in Passes :
        LET G == ApplyPass(CurG, pass, catalog)
        IN  /\ G.ctr <= MaxReqCounter
            /\ nodes' = G.nodes
            /\ edges' = G.edges
            /\ req_counter' = G.ctr
            /\ UNCHANGED <<catalog, pc, runs, runKind, prevNodes, prevEdges,
                           report, verified>>
            /\ UNCHANGED toolVars
            /\ UNCHANGED walkVars

\* CompleteCourseImporter(...) in a new process: the counter starts at 0
NewImporter ==
    /\ req_counter # 0
    /\ req_counter' = 0
    /\ UNCHANGED <<catalog, nodes, edges, pc, runs, runKind, prevNodes,
                   prevEdges, report, verified>>
    /\ UNCHANGED toolVars
    /\ UNCHANGED walkVars

NextPasses ==
    \/ RunPass
    \/ NewImporter

SpecPasses == InitPasses /\ [][NextPasses]_vars

\* C12: whatever passes ran, in whatever order and however often, the store
\* holds one relationship at most of a kind from one node to another, and one
\* node at most per label and key.
C12_NoDuplicateEdgesOrNodes ==
    /\ \A e \in DOMAIN edges : edges[e] = 1
    /\ \A n \in DOMAIN nodes :
          /\ nodes[n] = 1
          /\ \A m \in DOMAIN nodes :
                (m.label = n.label /\ m.key = n.key) => m = n

\* the AST pass ran twice on one importer and once more on a new one, the
\* list passes ran too: CSCE 2303 has its groups, every edge is single
C12_Witness ==
    /\ req_counter = 2
    /\ HasNode(nodes, "RequirementGroup", ReqId(C2303, 1))
    /\ HasNode(nodes, "RequirementGroup", ReqId(C2303, 2))
    /\ HasEdge(edges, "REQUIRES", GroupRef(ReqId(C2303, 1)), CourseRef(C1101))
    /\ HasEdge(edges, "REQUIRES", GroupRef(ReqId(C2303, 2)), CourseRef(C1101))
    /\ DirectEdge(edges, "REQUIRES", C2303, C1101)
    /\ DirectEdge(edges, "EQUIVALENT", C1101, C1001)
    /\ HasEdge(edges, "REQUIRES", NodeRef("Program", <<"CE">>), CourseRef(C2303))
    /\ edges[Edge("REQUIRES", CourseRef(C2303), CourseRef(C1101))] = 1

-----------------------------------------------------------------------------
(* The result of get_all_prerequisites_recursive, under SpecWalk *)

ClosureDone ==
    /\ query.tool = "get_all_prerequisites_recursive"
    /\ answer.kind = "done"

StartId == get_course_by_code(courses, query.course_code).course_master_id

\* documents reachable from m by one or more prerequisite_courses links
ReachPlus(m) == ReachFrom(Links(m))

CodesOf(ids) == {get_course_by_master_id(courses, m).course_code : m \in ids}

\* C13: the list returned names exactly the courses of the store reachable
\* from the start by one or more prerequisite links, each of them once.
C13_ClosureIsExact ==
    ClosureDone =>
        /\ Range(answer.result) = CodesOf(ReachPlus(StartId))
        /\ Cardinality(Range(answer.result)) = Len(answer.result)

\* CSCE 1001 is reached twice, under CSCE 1101 with the visited set already
\* holding it the second time, and reported once
C13_Witness ==
    /\ ClosureDone
    /\ query.course_code = <<" ", "csce", " ", "2303">>
    /\ chain = <<C1101, C1001, C1001>>
    /\ answer.result = <<C1101, C1001>>
    /\ visited = {M2303, M1101, M1001}

-----------------------------------------------------------------------------
(* Dependents: find_courses_requiring of knowledge_base.py and             *)
(* get_course_dependencies of test_script.py                               *)

\* course_master_id.replace('COURSE:', '').replace('_', ' ')
master_id_to_code(master_id) ==
    LET stripped == SelectSeq(master_id, NotPrefixTok)
    IN  [i \in 1..Len(stripped) |->
            IF stripped[i] = "_" THEN " " ELSE stripped[i]]

\* MATCH (c:Course)-[:REQUIRES]->(p:Course {code}) UNION
\* MATCH (c:Course)-[:HAS_REQUIREMENT]->(rg)-[:REQUIRES|OPTION]->(p:Course {code})
requiring_codes(es, code) ==
    {e.from.key : e \in {x \in DOMAIN es :
        /\ x.from.label = "Course"
        /\ \/ DirectEdge(es, "REQUIRES", x.from.key, code)
           \/ GroupPath(es, x.from.key, code)}}

RECURSIVE SelectCodes(_, _, _)
SelectCodes(cs, codes, i) ==
    IF i > Len(cs) THEN <<>>
    ELSE (IF /\ cs[i].course_code # None
             /\ \E c \in codes : Upper(cs[i].course_code) = Upper(Strip(c))
          THEN <<cs[i].course_code>> ELSE <<>>)
         \o SelectCodes(cs, codes, i + 1)

\* find({"course_code": {"$regex": "^A$|^B$", "$options": "i"}}), by code
get_multiple_courses_by_codes(cs, codes) == SelectCodes(cs, codes, 1)

find_courses_requiring(es, cs, course_master_id) ==
    LET course_codes == requiring_codes(es, master_id_to_code(course_master_id))
    IN  IF course_codes # {} THEN get_multiple_courses_by_codes(cs, course_codes)
        ELSE <<>>

get_course_dependencies(es, course_code) ==
    OrderBy(requiring_codes(es, course_code))

FindCoursesRequiring ==
    \E course_master_id \in {M1001, M1101, M2303, M9999} :
        /\ answer = NoAnswer
        /\ query' = [tool |-> "find_courses_requiring",
                     course_code |-> master_id_to_code(course_master_id)]
        /\ answer' = WalkAnswer("dependents",
                         find_courses_requiring(edges, courses, course_master_id))
        /\ UNCHANGED <<catalog, courses, catalogs>>
        /\ UNCHANGED graphVars
        /\ UNCHANGED walkVars

GetCourseDependencies ==
    \E course_code \in {C1001, C1101, C2303, C9999} :
        /\ answer = NoAnswer
        /\ query' = [tool |-> "get_course_dependencies",
                     course_code |-> course_code]
        /\ answer' = WalkAnswer("dependents",
                                get_course_dependencies(edges, course_code))
        /\ UNCHANGED <<catalog, courses, catalogs>>
        /\ UNCHANGED graphVars
        /\ UNCHANGED walkVars

NextDependents ==
    \/ SyncCourses
    \/ RunImport
    \/ FindCoursesRequiring
    \/ GetCourseDependencies
    \/ ReturnToAgent

SpecDependents == InitWalk /\ [][NextDependents]_vars

-----------------------------------------------------------------------------
(* Properties of Dependents, under SpecDependents *)

GraphCourses == {n.key : n \in {x \in DOMAIN nodes : x.label = "Course"}}

\* the prerequisite links of the graph: direct REQUIRES and group paths
GraphLinks(code) == Range(get_prerequisites_simple(edges, code))

RECURSIVE GraphReachFrom(_)
GraphReachFrom(S) ==
    LET T == S \cup UNION {GraphLinks(c) : c \in S}
    IN  IF T = S THEN S ELSE GraphReachFrom(T)

\* courses from which code is reachable by one or more links
ReverseClosure(code) ==
    {c \in GraphCourses : code \in GraphReachFrom(GraphLinks(c))}

\* both stores hold the catalog
Loaded == courses # <<>> /\ nodes # EmptyBag

DependentsQuery == answer.kind = "dependents" /\ Loaded

\* C14: Dependents(c) is the full reverse closure of c: every course from
\* which c is reachable by one or more prerequisite links.
C14_DependentsIsReverseClosure ==
    DependentsQuery => Range(answer.result) = ReverseClosure(query.course_code)

\* what the two queries return: the courses one link away
DependentsAreOneHop ==
    DependentsQuery =>
        Range(answer.result) = {c \in GraphCourses : query.course_code \in GraphLinks(c)}

-----------------------------------------------------------------------------
(* Available: can_take_course and get_courses_available of test_script.py  *)

\* get_prerequisites_detailed: the 'direct' rows
direct_prereqs(es, course_code) ==
    {e.to.key : e \in {x \in DOMAIN es :
        /\ x.kind = "REQUIRES"
        /\ x.from = CourseRef(course_code)
        /\ x.to.label = "Course"}}

\* get_prerequisites_detailed: the RequirementGroup nodes of the course
requirement_groups(ns, es, course_code) ==
    {n \in DOMAIN ns :
        /\ n.label = "RequirementGroup"
        /\ HasEdge(es, "HAS_REQUIREMENT", CourseRef(course_code), GroupRef(n.key))}

\* get_prerequisites_detailed: the courses of one group, REQUIRES rows for an
\* AND group, OPTION rows for an OR group
group_courses(es, group) ==
    {e.to.key : e \in {x \in DOMAIN es :
        /\ x.kind = (IF group.prop = "AND" THEN "REQUIRES" ELSE "OPTION")
        /\ x.from = GroupRef(group.key)
        /\ x.to.label = "Course"}}

group_satisfied(es, group, completed_courses) ==
    IF group.prop = "AND"
    THEN \A c \in group_courses(es, group) : c \in Range(completed_courses)
    ELSE \E c \in group_courses(es, group) : c \in Range(completed_courses)

can_take_course(ns, es, course_code, completed_courses) ==
    /\ \A p \in direct_prereqs(es, course_code) : p \in Range(completed_courses)
    /\ \A g \in requirement_groups(ns, es, course_code) :
          group_satisfied(es, g, completed_courses)

get_courses_available(ns, es, completed_courses) ==
    OrderBy({c \in {n.key : n \in {x \in DOMAIN ns : x.label = "Course"}} :
                /\ c \notin Range(completed_courses)
                /\ can_take_course(ns, es, c, completed_courses)})

AvailAsts ==
    { NoAst,
      Course(M1101),
      Concurrent(M1101),
      And(<<Course(M1101), Course(M1001)>>),
      Or(<<Course(M1101), Course(M1001)>>),
      Or(<<Course(M1101), And(<<Course(M1001), Course(M9999)>>)>>),
      Or(<<Standing(<<"junior">>), Approval(<<"instructor">>)>>),
      And(<<Concurrent(M1101), Course(M1001)>>) }

AvailCatalogs ==
    { << Doc(C1001, M1001, NoAst, <<>>, <<>>, <<>>, <<>>),
         Doc(C1101, M1101, d2[1], d2[2], <<>>, <<>>, <<>>),
         Doc(C2303, M2303, ast3, pre3, <<>>, <<>>, <<>>) >> :
        d2 \in {<<NoAst, <<>>>>, <<Course(M1001), <<M1001>>>>},
        ast3 \in AvailAsts,
        pre3 \in {<<>>, <<M1101>>, <<M1101, M1001>>} }

CompletedCodes == {C1001, C1101}

InitAvailable ==
    /\ catalog \in AvailCatalogs
    /\ InitGraphVars
    /\ InitToolVars
    /\ InitWalkVars

GetCoursesAvailable ==
    \E completed_courses \in SeqsUpTo(CompletedCodes, MaxCompleted) :
        /\ answer = NoAnswer
        /\ query' = [tool |-> "get_courses_available",
                     completed_courses |-> completed_courses]
        /\ answer' = WalkAnswer("available",
                         get_courses_available(nodes, edges, completed_courses))
        /\ UNCHANGED <<catalog, courses, catalogs>>
        /\ UNCHANGED graphVars
        /\ UNCHANGED walkVars

CanTakeCourse ==
    \E course_code \in {C1101, C2303} :
        \E completed_courses \in SeqsUpTo(CompletedCodes, MaxCompleted) :
            /\ answer = NoAnswer
            /\ query' = [tool |-> "can_take_course",
                         course_code |-> course_code,
                         completed_courses |-> completed_courses]
            /\ answer' = WalkAnswer("can_take",
                             can_take_course(nodes, edges, course_code,
                                             completed_courses))
            /\ UNCHANGED <<catalog, courses, catalogs>>
            /\ UNCHANGED graphVars
            /\ UNCHANGED walkVars

NextAvailable ==
    \/ SyncCourses
    \/ RunImport
    \/ GetCoursesAvailable
    \/ CanTakeCourse
    \/ ReturnToAgent

SpecAvailable == InitAvailable /\ [][NextAvailable]_vars

-----------------------------------------------------------------------------
(* Properties of Available, under SpecAvailable *)

\* the verdict of check_prerequisites_satisfied for a course of the store
EvaluateSays(course_code, completed_courses) ==
    check_prerequisites_satisfied(courses, course_code, completed_courses).satisfied

AvailableQuery == answer.kind = "available" /\ Loaded

\* C15: on a graph compiled from the catalog, get_courses_available returns
\* exactly the catalog's courses that are not completed and whose AST the
\* evaluator reports satisfied for the completed list.
C15_AvailableAgreesWithEvaluate ==
    AvailableQuery =>
        Range(answer.result) =
            {c \in CatalogCodes(catalog) :
                /\ c \notin Range(query.completed_courses)
                /\ EvaluateSays(c, query.completed_courses)}

\* the AST is absent, one COURSE leaf or an AND of COURSE leaves, and the
\* prerequisite_courses list names no course beyond the AST's leaves
PlainConjunction(d) ==
    /\ \/ NodeFalsy(d.prerequisite_ast)
       \/ d.prerequisite_ast.op = "COURSE"
       \/ /\ d.prerequisite_ast.op = "AND"
          /\ \A i \in 1..Len(d.prerequisite_ast.args) :
                d.prerequisite_ast.args[i].op = "COURSE"
    /\ Range(d.prerequisite_courses)
           \subseteq {n.id : n \in SubNodes(d.prerequisite_ast)}

\* graph and evaluator agree on catalogs of plain conjunctions
AvailableAgreesOnPlainConjunctions ==
    (AvailableQuery /\ \A i \in 1..Len(catalog) : PlainConjunction(catalog[i]))
        => Range(answer.result) =
               {c \in CatalogCodes(catalog) :
                   /\ c \notin Range(query.completed_courses)
                   /\ EvaluateSays(c, query.completed_courses)}

\* ---------------------------------------------------------------------
\* Degree progress (src/tools/catalog_tools.py, calculate_degree_progress)
\* ---------------------------------------------------------------------

\* a credits value of a course document: settings.py allows a number or a
\* string; the string is kept as its characters
IntCredits(n) == [type |-> "int", number |-> n, text |-> <<>>]

StrCredits(t) == [type |-> "str", number |-> 0, text |-> t]

Digits == <<"0", "1", "2", "3", "4", "5", "6", "7", "8", "9">>

IsDigit(c) == \E i \in 1..Len(Digits) : Digits[i] = c

DigitValue(c) == (CHOOSE i \in 1..Len(Digits) : Digits[i] = c) - 1

RECURSIVE ParseDigits(_, _)
ParseDigits(t, acc) ==
    IF t = <<>> THEN acc
    ELSE ParseDigits(Tail(t), acc * 10 + DigitValue(Head(t)))

\* int(v): raised stands for ValueError; surrounding blanks are accepted,
\* a range such as "1-3" is not
int(v) ==
    IF v.type = "int"
    THEN [raised |-> FALSE, value |-> v.number]
    ELSE LET t == Strip(v.text)
         IN  IF t # <<>> /\ \A i \in 1..Len(t) : IsDigit(t[i])
             THEN [raised |-> FALSE, value |-> ParseDigits(t, 0)]
             ELSE [raised |-> TRUE, value |-> 0]

\* course.get('credits', 0)
credits_of(course) ==
    IF "credits" \in DOMAIN course THEN course.credits ELSE IntCredits(0)

WithCredits(doc, credits) == doc @@ [credits |-> credits]

\* one record of the catalogs collection
Requirements(freshman, concentration) ==
    [core_curriculum |->
        [freshman_requirements |-> [required_course_master_ids |-> freshman]],
     concentration |-> [required_course_master_ids |-> concentration]]

ProgramCatalog(catalog_id, program_id, requirements) ==
    [catalog_id |-> catalog_id, program_id |-> program_id,
     title |-> "Computer Engineering", program_requirements |-> requirements]

WithTotal(program, total) == program @@ [total_credits_required |-> total]

NoCatalog == ProgramCatalog(None, None, Requirements(<<>>, <<>>))

\* kb.catalogs.find_one({"catalog_id": ..., "program_id": ...})
find_catalog(cats, catalog_id, program_id) ==
    LET hits == {i \in 1..Len(cats) :
                    /\ cats[i].catalog_id = catalog_id
                    /\ cats[i].program_id = program_id}
    IN  IF hits = {} THEN NoCatalog ELSE cats[First(hits)]

\* catalog.get('total_credits_required', 0)
total_credits_required(program) ==
    IF "total_credits_required" \in DOMAIN program
    THEN program.total_credits_required
    ELSE 0

\* the loop over completed_courses: tally.credits is completed_credits and
\* tally.ids is completed_master_ids; a course that is not in the store, or
\* whose credits int() rejects, leaves both as they were
RECURSIVE count_completed(_, _, _)
count_completed(cs, completed_courses, tally) ==
    IF completed_courses = <<>> THEN tally
    ELSE LET course == get_course_by_code(cs, Head(completed_courses))
             credits == int(credits_of(course))
             next == IF course = NoDoc \/ credits.raised
                     THEN tally
                     ELSE [credits |-> tally.credits + credits.value,
                           ids |-> tally.ids \cup {course.course_master_id}]
         IN  count_completed(cs, Tail(completed_courses), next)

\* the same loop when only the courses of the given requirement sets count
RECURSIVE count_completed_required(_, _, _, _)
count_completed_required(cs, completed_courses, tally, required) ==
    IF completed_courses = <<>> THEN tally
    ELSE LET course == get_course_by_code(cs, Head(completed_courses))
             credits == int(credits_of(course))
             next == IF \/ course = NoDoc
                        \/ credits.raised
                        \/ course.course_master_id \notin required
                     THEN tally
                     ELSE [credits |-> tally.credits + credits.value,
                           ids |-> tally.ids \cup {course.course_master_id}]
         IN  count_completed_required(cs, Tail(completed_courses), next,
                                      required)

\* a quotient of two integers, kept exact
Fraction(num, den) == [num |-> num, den |-> den]

percentage_without_hundred(completed_credits, total_required) ==
    IF total_required > 0
    THEN Fraction(completed_credits, total_required)
    ELSE Fraction(0, 1)

\* (completed_credits / total_required * 100) if total_required > 0 else 0
percentage_of(completed_credits, total_required) ==
    IF total_required > 0
    THEN Fraction(completed_credits * 100, total_required)
    ELSE Fraction(0, 1)

\* f"{percentage:.1f}": the number of tenths nearest to the value, a value
\* half way between two tenths going to the even one
format_tenths(f) ==
    LET n == f.num * 10
        q == n \div f.den
        r == n % f.den
    IN  IF 2 * r < f.den THEN q
        ELSE IF 2 * r > f.den THEN q + 1
        ELSE IF q % 2 = 0 THEN q ELSE q + 1

SetOf(seq) == {seq[i] : i \in 1..Len(seq)}

ProgressAnswer(total, tally, percentage, completed_courses, freshman, conc) ==
    [kind |-> "progress",
     total_required |-> total,
     completed_credits |-> tally.credits,
     remaining_credits |-> total - tally.credits,
     percentage |-> percentage,
     progress_tenths |-> format_tenths(percentage),
     completed_courses |-> completed_courses,
     freshman_completed |-> Cardinality(freshman \cap tally.ids),
     freshman_required |-> Cardinality(freshman),
     conc_completed |-> Cardinality(conc \cap tally.ids),
     conc_required |-> Cardinality(conc)]

catalog_id_of(catalog_year) == <<"catalog_", catalog_year>>

calculate_degree_progress(cats, cs, program_id, completed_arg, catalog_year) ==
    LET program == find_catalog(cats, catalog_id_of(catalog_year), program_id)
        total_required == total_credits_required(program)
        completed_courses ==
            [i \in 1..Len(completed_arg) |->
                Upper(Strip(completed_arg[i]))]
        tally == count_completed(cs, completed_courses,
                                 [credits |-> 0, ids |-> {}])
        requirements == program.program_requirements
        freshman_required ==
            SetOf(requirements.core_curriculum.freshman_requirements
                      .required_course_master_ids)
        conc_required ==
            SetOf(requirements.concentration.required_course_master_ids)
    IN  IF program = NoCatalog
        THEN [kind |-> "program_not_found"]
        ELSE ProgressAnswer(total_required, tally,
                            percentage_of(tally.credits, total_required),
                            completed_courses, freshman_required,
                            conc_required)

\* --- the inputs of the degree-progress check ---

DefaultYear == "2024-2025"

ProgramIds == {"CE", "XX"}

\* 1001, 1101 and 2303 with a credits value each; 2303 may carry a range or
\* no credits field at all
ProgressCourses ==
    {<<WithCredits(Doc(C1001, M1001, NoAst, <<>>, <<>>, <<>>, <<>>), c1),
       WithCredits(Doc(C1101, M1101, NoAst, <<>>, <<>>, <<>>, <<>>), c2)>>
         \o d3 :
        c1 \in {IntCredits(3), IntCredits(15)},
        c2 \in {StrCredits(<<"3">>), IntCredits(30)},
        d3 \in {<<WithCredits(Doc(C2303, M2303, NoAst, <<>>, <<>>, <<>>, <<>>),
                              StrCredits(<<"1", "-", "3">>))>>,
                <<Doc(C2303, M2303, NoAst, <<>>, <<>>, <<>>, <<>>)>>}}

ProgressPrograms ==
    LET bare == {ProgramCatalog(catalog_id_of(DefaultYear), "CE",
                                Requirements(f, c)) :
                    f \in {<<M1001>>, <<M1001, M1101>>},
                    c \in {<<>>, <<M2303>>}}
    IN  bare \cup {WithTotal(p, t) : p \in bare, t \in {120, 8, 0}}

ProgressCompletedArgs ==
    {C1001, C1101, <<"csce", " ", "1101", " ">>, C2303, C9999}

InitProgress ==
    /\ catalog \in ProgressCourses
    /\ InitGraphVars
    /\ InitWalkVars
    /\ courses = <<>>
    /\ query = NoQuery
    /\ answer = NoAnswer
    /\ catalogs \in {<<p>> : p \in ProgressPrograms}

CalculateDegreeProgress ==
    /\ answer = NoAnswer
    /\ \E program_id \in ProgramIds,
          completed_courses \in SeqsUpTo(ProgressCompletedArgs, MaxCompleted) :
            /\ query' = [tool |-> "calculate_degree_progress",
                         program_id |-> program_id,
                         completed_courses |-> completed_courses]
            /\ answer' = calculate_degree_progress(catalogs, courses,
                             program_id, completed_courses, DefaultYear)
            /\ UNCHANGED <<catalog, courses, catalogs>>
            /\ UNCHANGED graphVars
            /\ UNCHANGED walkVars

NextProgress ==
    \/ SyncCourses
    \/ CalculateDegreeProgress
    \/ ReturnToAgent

SpecProgress == InitProgress /\ [][NextProgress]_vars

\* --- properties of the degree-progress tool ---

ProgressQuery ==
    /\ query # NoQuery
    /\ query.tool = "calculate_degree_progress"
    /\ answer # NoAnswer
    /\ answer.kind = "progress"

QueriedProgram == catalogs[1]

RequiredIds(program) ==
    LET requirements == program.program_requirements
    IN  SetOf(requirements.core_curriculum.freshman_requirements
                  .required_course_master_ids)
        \cup SetOf(requirements.concentration.required_course_master_ids)

NormalizedCompleted ==
    [i \in 1..Len(query.completed_courses) |->
        Upper(Strip(query.completed_courses[i]))]

\* C16: the credits reported as completed are the credits of the completed
\* courses that are in one of the program's required-course sets, and of no
\* other course
C16_OnlyRequiredCoursesCount ==
    ProgressQuery =>
        answer.completed_credits =
            count_completed_required(courses, NormalizedCompleted,
                                     [credits |-> 0, ids |-> {}],
                                     RequiredIds(QueriedProgram)).credits

\* what the tool does instead: every completed course found in the store
\* with readable credits counts, once per occurrence in the list
ProgressCountsEveryStoredCourse ==
    ProgressQuery =>
        answer.completed_credits =
            count_completed(courses, NormalizedCompleted,
                            [credits |-> 0, ids |-> {}]).credits

\* C17: the percentage is completed credits over required credits times a
\* hundred (45 of 120 is shown as 37.5), and it is 0, with a result and no
\* failure, when the required total is 0 or absent
C17_PercentageOfTotal ==
    ProgressQuery =>
        LET total == total_credits_required(QueriedProgram)
            done == answer.completed_credits
        IN  /\ total > 0 =>
                /\ answer.percentage.den > 0
                /\ answer.percentage.num * total
                       = done * 100 * answer.percentage.den
                /\ 2 * (answer.progress_tenths * total - done * 1000) <= total
                /\ 2 * (done * 1000 - answer.progress_tenths * total) <= total
            /\ total = 0 =>
                /\ answer.percentage.num = 0
                /\ answer.progress_tenths = 0
            /\ (done = 45 /\ total = 120) => answer.progress_tenths = 375

C17_Witness ==
    /\ ProgressQuery
    /\ answer.completed_credits = 45
    /\ answer.total_required = 120
    /\ answer.progress_tenths = 375

ProgressWithoutTotalReached ==
    /\ ProgressQuery
    /\ "total_credits_required" \notin DOMAIN QueriedProgram
    /\ answer.completed_credits > 0
    /\ answer.progress_tenths = 0


\* --- CONCURRENT references and availability (under SpecAvailable) ---

\* the master ids the AST names in nodes of the given kind
IdsOf(ast, op) == {n.id : n \in {m \in SubNodes(ast) : m.op = op}}

\* q is named by the document's AST in CONCURRENT nodes and nowhere else
OnlyConcurrent(d, q) ==
    /\ ~NodeFalsy(d.prerequisite_ast)
    /\ q \in IdsOf(d.prerequisite_ast, "CONCURRENT")
    /\ q \notin IdsOf(d.prerequisite_ast, "COURSE")
    /\ q \notin Range(d.prerequisite_courses)

CanTakeQuery == answer.kind = "can_take" /\ Loaded

QueriedDoc == get_course_by_code(courses, query.course_code)

\* C18: when a course names CSCE 1101 only in CONCURRENT nodes and CSCE 1101
\* is not in the completed list, neither can_take_course on the compiled
\* graph nor the evaluator gives a verdict that having CSCE 1101 would change
C18_ConcurrentNeverBlocks ==
    (/\ CanTakeQuery
     /\ OnlyConcurrent(QueriedDoc, M1101)
     /\ C1101 \notin Range(query.completed_courses)) =>
        LET with_q == Append(query.completed_courses, C1101)
        IN  /\ answer.result =
                   can_take_course(nodes, edges, query.course_code, with_q)
            /\ EvaluateSays(query.course_code, query.completed_courses) =
                   EvaluateSays(query.course_code, with_q)

\* a CONCURRENT node at the root of the AST does not block in the graph
RootConcurrentDoesNotBlock ==
    (/\ CanTakeQuery
     /\ OnlyConcurrent(QueriedDoc, M1101)
     /\ QueriedDoc.prerequisite_ast.op = "CONCURRENT") =>
        answer.result = TRUE

\* the evaluator never blocks on a course named only in CONCURRENT nodes
EvaluatorIgnoresConcurrent ==
    (/\ CanTakeQuery
     /\ OnlyConcurrent(QueriedDoc, M1101)
     /\ C1101 \notin Range(query.completed_courses)) =>
        EvaluateSays(query.course_code, query.completed_courses) =
            EvaluateSays(query.course_code,
                         Append(query.completed_courses, C1101))


\* ---------------------------------------------------------------------
\* ComplexCourseImporter (import_courses_to_neo4j.py) beside
\* CompleteCourseImporter: references that resolve to no course
\* ---------------------------------------------------------------------

\* node['course_master_id'].replace('COURSE:', '').replace('_', ' ')
replace_prefix_and_underscore(master_id) ==
    LET stripped == SelectSeq(master_id, NotPrefixTok)
    IN  [i \in 1..Len(stripped) |->
            IF stripped[i] = "_" THEN " " ELSE stripped[i]]

Raised(G) == [G EXCEPT !.ok = FALSE]

\* ComplexCourseImporter.create_departments
complex_create_departments(G, K) == create_departments(G, K)

\* ComplexCourseImporter.import_courses: course['course_code'] raises on a
\* document without the key; the node carries no master id
complex_import_course(G, d) ==
    IF ~Truthy(d.course_code) THEN Raised(G)
    ELSE MatchMergeEdge(
             [G EXCEPT !.nodes = MergeNode(G.nodes, "Course", d.course_code, None)],
             "BELONGS_TO", CourseRef(d.course_code),
             NodeRef("Department", d.department_code))

RECURSIVE complex_import_courses_from(_, _, _)
complex_import_courses_from(G, K, i) ==
    IF i > Len(K) \/ ~G.ok THEN G
    ELSE complex_import_courses_from(complex_import_course(G, K[i]), K, i + 1)

complex_import_courses(G, K) == complex_import_courses_from(G, K, 1)

RECURSIVE complex_process_ast_node(_, _, _, _)
RECURSIVE complex_process_children(_, _, _, _, _, _)

\* the loop over args; an exception in a child leaves the loop
complex_process_children(G, course_code, req_id, kind, args, j) ==
    IF j > Len(args) \/ ~G.ok THEN G
    ELSE LET r == complex_process_ast_node(G, course_code, args[j], FALSE)
         IN  complex_process_children(
                 IF r.G.ok THEN attach_child(r.G, req_id, kind, r.ret) ELSE r.G,
                 course_code, req_id, kind, args, j + 1)

\* node['course_master_id'] raises KeyError when the key is missing (and
\* .replace raises on None); any string is converted, prefix or not
complex_process_ast_node(G, course_code, node, is_root) ==
    IF NodeFalsy(node) THEN Ret(G, None)
    ELSE CASE node.op = "COURSE" ->
                IF ~Truthy(node.id) THEN Ret(Raised(G), None)
                ELSE LET prereq_code == replace_prefix_and_underscore(node.id)
                     IN  Ret(IF is_root
                             THEN MatchMergeEdge(G, "REQUIRES",
                                      CourseRef(course_code), CourseRef(prereq_code))
                             ELSE G,
                             prereq_code)
           [] node.op = "CONCURRENT" ->
                IF ~Truthy(node.id) THEN Ret(Raised(G), None)
                ELSE LET prereq_code == replace_prefix_and_underscore(node.id)
                     IN  Ret(MatchMergeEdge(G, "COREQUISITE",
                                 CourseRef(course_code), CourseRef(prereq_code)),
                             prereq_code)
           [] node.op \in {"AND", "OR"} ->
                LET ctr == next_req_counter(G.ctr)
                    req_id == ReqId(course_code, ctr)
                    G1 == create_group([G EXCEPT !.ctr = ctr], course_code,
                                       req_id, node.op)
                    kind == IF node.op = "AND" THEN "REQUIRES" ELSE "OPTION"
                IN  Ret(complex_process_children(G1, course_code, req_id, kind,
                                                 node.args, 1),
                        req_id)
           [] node.op = "STANDING" ->
                Ret(create_gate(G, course_code, "StandingRequirement", node.id,
                                "REQUIRES_STANDING"), None)
           [] node.op = "APPROVAL" ->
                Ret(create_gate(G, course_code, "ApprovalRequirement", node.id,
                                "REQUIRES_APPROVAL"), None)
           [] OTHER -> Ret(G, None)

complex_parse_prerequisite_ast(G, course_code, prereq_ast) ==
    IF NodeFalsy(prereq_ast) THEN G
    ELSE complex_process_ast_node(G, course_code, prereq_ast, TRUE).G

RECURSIVE complex_create_prerequisites_from_ast_from(_, _, _)
complex_create_prerequisites_from_ast_from(G, K, i) ==
    IF i > Len(K) \/ ~G.ok THEN G
    ELSE complex_create_prerequisites_from_ast_from(
             IF ~Truthy(K[i].course_code) THEN Raised(G)
             ELSE complex_parse_prerequisite_ast(G, K[i].course_code,
                                                 K[i].prerequisite_ast),
             K, i + 1)

complex_create_prerequisites_from_ast(G, K) ==
    complex_create_prerequisites_from_ast_from(G, K, 1)

\* --- the inputs: CSCE 1101 carries a reference that may not resolve ---

UnresolvedAsts ==
    { Course(M9999), Course(None), Course(MBad),
      Concurrent(M9999), Concurrent(None),
      And(<<Course(M9999), Course(M1001)>>),
      And(<<Course(None), Course(M1001)>>),
      Or(<<Concurrent(MBad), Course(M1001)>>),
      Or(<<And(<<Course(None), Course(M9999)>>), Course(M1001)>>) }

FollowingAsts ==
    { NoAst, Course(M1101), Concurrent(M1001),
      And(<<Course(M1001), Course(M1101)>>) }

UnresolvedCatalogs ==
    { << Doc(C1001, M1001, NoAst, <<>>, <<>>, <<>>, <<>>),
         Doc(C1101, M1101, ast2, <<>>, <<>>, <<>>, <<>>),
         Doc(C2303, M2303, ast3, <<>>, <<>>, <<>>, <<>>) >> :
        ast2 \in UnresolvedAsts, ast3 \in FollowingAsts }

InitCompile ==
    /\ catalog \in UnresolvedCatalogs
    /\ InitGraphVars
    /\ InitToolVars
    /\ InitWalkVars

\* the importer of a run is constructed, fills the store, then compiles
CompileStep(G, next, importer) ==
    /\ nodes' = G.nodes
    /\ edges' = G.edges
    /\ req_counter' = G.ctr
    /\ pc' = IF G.ok THEN next ELSE "aborted"
    /\ runKind' = importer
    /\ UNCHANGED <<catalog, runs, prevNodes, prevEdges, report, verified>>
    /\ UNCHANGED toolVars
    /\ UNCHANGED walkVars

CompleteImport ==
    /\ pc = "idle"
    /\ CompileStep(import_courses(create_departments(CurG, catalog), catalog),
                   "imported", "complete")

ComplexImport ==
    /\ pc = "idle"
    /\ CompileStep(complex_import_courses(
                       complex_create_departments(CurG, catalog), catalog),
                   "imported", "complex")

CompleteCreatePrerequisitesFromAst ==
    /\ pc = "imported"
    /\ runKind = "complete"
    /\ CompileStep(create_prerequisites_from_ast(CurG, catalog),
                   "compiled", "complete")

ComplexCreatePrerequisitesFromAst ==
    /\ pc = "imported"
    /\ runKind = "complex"
    /\ CompileStep(complex_create_prerequisites_from_ast(CurG, catalog),
                   "compiled", "complex")

NextCompile ==
    \/ CompleteImport
    \/ ComplexImport
    \/ CompleteCreatePrerequisitesFromAst
    \/ ComplexCreatePrerequisitesFromAst

SpecCompile == InitCompile /\ [][NextCompile]_vars

\* --- properties of the compile pass on unresolvable references ---

\* the reference names a Course node of the store
Resolvable(id) ==
    /\ Truthy(id)
    /\ StartsWithCourse(id)
    /\ HasCourse(nodes, convert_master_id_to_code(id))

IsRef(n) == n.op \in {"COURSE", "CONCURRENT"}

\* the references of a document's AST that do not resolve
Unresolved(d) ==
    {n \in SubNodes(d.prerequisite_ast) : IsRef(n) /\ ~Resolvable(n.id)}

\* the edges the pass owes for the references of the AST that do resolve:
\* the root reference its direct edge, a child of an AND / OR node an edge
\* from a group of the course
RootEdgeEmitted(d) ==
    LET root == d.prerequisite_ast
    IN  (IsRef(root) /\ Resolvable(root.id)) =>
            HasEdge(edges,
                    IF root.op = "COURSE" THEN "REQUIRES" ELSE "COREQUISITE",
                    CourseRef(d.course_code),
                    CourseRef(convert_master_id_to_code(root.id)))

ChildEdgesEmitted(d) ==
    \A g \in {n \in SubNodes(d.prerequisite_ast) : n.op \in {"AND", "OR"}} :
        \A j \in 1..Len(g.args) :
            (IsRef(g.args[j]) /\ Resolvable(g.args[j].id)) =>
                \E e \in DOMAIN edges :
                    /\ e.kind = IF g.op = "AND" THEN "REQUIRES" ELSE "OPTION"
                    /\ e.from.label = "RequirementGroup"
                    /\ e.to = CourseRef(convert_master_id_to_code(g.args[j].id))
                    /\ HasEdge(edges, "HAS_REQUIREMENT",
                               CourseRef(d.course_code), e.from)

\* no relationship of the course ends at a course other than the resolvable
\* references of its AST, and every relationship ends at a node of the store
NothingForUnresolved(d) ==
    LET owed == {convert_master_id_to_code(n.id) :
                    n \in {m \in SubNodes(d.prerequisite_ast) :
                              IsRef(m) /\ Resolvable(m.id)}}
        mine == {e \in DOMAIN edges :
                    \/ e.from = CourseRef(d.course_code)
                    \/ /\ e.from.label = "RequirementGroup"
                       /\ HasEdge(edges, "HAS_REQUIREMENT",
                                  CourseRef(d.course_code), e.from)}
    IN  \A e \in mine :
            /\ HasNode(nodes, e.to.label, e.to.key)
            /\ e.to.label = "Course" => e.to.key \in owed

CompileFinished == pc \in {"compiled", "aborted"}

UnresolvedIgnored ==
    /\ pc = "compiled"
    /\ ~HasCourse(nodes, C9999)
    /\ \A i \in 1..Len(catalog) :
          /\ RootEdgeEmitted(catalog[i])
          /\ ChildEdgesEmitted(catalog[i])
          /\ NothingForUnresolved(catalog[i])

\* C19: a compile pass over a catalog with a reference that resolves to no
\* Course node (no such course, missing id, id without the COURSE: prefix)
\* does not raise, creates no node and no relationship for that reference,
\* and emits the relationships of the other children and of the courses
\* that follow; for either importer
C19_UnresolvableReferenceIsIgnored ==
    (CompileFinished /\ Unresolved(catalog[2]) # {}) => UnresolvedIgnored

\* CompleteCourseImporter alone keeps the contract
CompleteImporterIgnoresUnresolved ==
    (CompileFinished /\ runKind = "complete") => UnresolvedIgnored

CompleteImporterIgnoresReached ==
    /\ pc = "compiled"
    /\ runKind = "complete"
    /\ catalog[2].prerequisite_ast = And(<<Course(None), Course(M1001)>>)
    /\ catalog[3].prerequisite_ast = Course(M1101)
    /\ HasEdge(edges, "REQUIRES", CourseRef(C2303), CourseRef(C1101))


\* ---------------------------------------------------------------------
\* Batch runs over catalogs with malformed entries
\* ---------------------------------------------------------------------

\* the entry of a department whose department_name key is missing
WithoutDepartmentName(d) == [f \in DOMAIN d \ {"department_name"} |-> d[f]]

MalformedEntries ==
    { <<>>,
      \* no course_code
      <<Doc(None, M9999, Course(M1001), <<M1001>>, <<>>, <<>>, <<>>)>>,
      \* credits that are no number; import_courses falls back to 3
      <<WithCredits(Doc(C9999, M9999, Course(M1001), <<M1001>>, <<>>, <<>>, <<>>),
                    StrCredits(<<"T", "B", "A">>))>>,
      \* no department name
      <<WithoutDepartmentName(
            Doc(C9999, M9999, Course(M1001), <<M1001>>, <<>>, <<>>, <<>>))>> }

BatchCatalogs ==
    { << Doc(C1001, M1001, NoAst, <<>>, <<>>, <<>>, <<>>),
         Doc(C1101, M1101, d2[1], d2[2], <<>>, <<>>, <<>>),
         Doc(C2303, M2303, And(<<Course(M1101), Course(M1001)>>),
             <<M1101, M1001>>, <<>>, <<>>, <<>>) >> \o bad :
        d2 \in {<<NoAst, <<>>>>, <<Course(M1001), <<M1001>>>>},
        bad \in MalformedEntries }

InitBatch ==
    /\ catalog \in BatchCatalogs
    /\ InitGraphVars
    /\ InitToolVars
    /\ InitWalkVars

SpecBatch == InitBatch /\ [][Next]_vars

WellFormed(d) == Truthy(d.course_code) /\ "department_name" \in DOMAIN d

RunCompleted ==
    /\ pc # "aborted"
    /\ pc = "done" =>
          \A i \in 1..Len(catalog) :
              Truthy(catalog[i].course_code) =>
                  /\ HasCourse(nodes, catalog[i].course_code)
                  /\ \A j \in 1..Len(catalog[i].prerequisite_courses) :
                        LET p == convert_master_id_to_code(
                                     catalog[i].prerequisite_courses[j])
                        IN  HasCourse(nodes, p) =>
                                \/ DirectEdge(edges, "REQUIRES", catalog[i].course_code, p)
                                \/ GroupPath(edges, catalog[i].course_code, p)

\* C20: with a malformed entry in the catalog (no course_code, no department
\* name, credits that are no number) no run of the importer ends early, and
\* a finished run has imported every entry that has a code and has compiled
\* the prerequisites of each
C20_MalformedEntryDoesNotEndRun == RunCompleted

\* the entries without code or with unreadable credits end no run
OtherMalformedEntriesAreSkipped ==
    (\A i \in 1..Len(catalog) : "department_name" \in DOMAIN catalog[i]) =>
        RunCompleted

SkippedEntryRunDone ==
    /\ pc = "done"
    /\ \E i \in 1..Len(catalog) : ~Truthy(catalog[i].course_code)
    /\ HasCourse(nodes, C2303)


\* --- explanation of AND / OR nodes (under SpecEval) ---

Separator(n) == IF n.op = "AND" THEN " AND " ELSE " OR "

\* the explanations of the children from the i-th on, in child order, with
\* the node's operator between two neighbours
RECURSIVE ChildEntries(_, _)
ChildEntries(n, i) ==
    IF i > Len(n.args) THEN <<>>
    ELSE Explanation(n.args[i])
         \o (IF i < Len(n.args) THEN <<Separator(n)>> ELSE <<>>)
         \o ChildEntries(n, i + 1)

\* C21: the explanation of an AND or OR node, at any depth, is "(" followed
\* by one entry per child in child order, whatever the verdicts of the
\* earlier children, joined by the node's operator, followed by ")"; the
\* tool returns the explanation of the root
C21_EveryChildIsReported ==
    Evaluated =>
        /\ answer.explanation = Explanation(QueriedAst)
        /\ \A n \in SubNodes(QueriedAst) :
              n.op \in {"AND", "OR"} =>
                  Explanation(n) = <<"(">> \o ChildEntries(n, 1) \o <<")">>

\* AND whose first child fails: the nested OR is still reported, in place
C21_Witness ==
    /\ Evaluated
    /\ QueriedAst = And(<<Course(M1001), Or(<<Course(M1001), Course(M1101)>>)>>)
    /\ answer.completed_master_ids = {M1101}
    /\ ~answer.satisfied
    /\ answer.explanation =
           <<"(", Cross, " ">> \o C1001 \o <<" (NOT completed)", " AND ",
             "(", Cross, " ">> \o C1001 \o <<" (NOT completed)", " OR ",
             CheckMark, " ">> \o C1101 \o <<")", ")">>


\* --- secondary passes against what the AST pass wrote (under SpecBatch) ---

StoreCodes == {n.key : n \in {m \in DOMAIN nodes : m.label = "Course"}}

\* C22: no prerequisite is in the store twice, once through a
\* RequirementGroup of the course (written by the AST pass) and once as a
\* direct REQUIRES relationship (written from a list)
C22_NoDoubleMaterialization ==
    \A c \in StoreCodes, p \in StoreCodes :
        ~(DirectEdge(edges, "REQUIRES", c, p) /\ GroupPath(edges, c, p))

\* what the passes do avoid: the same relationship between the same two
\* nodes is never written twice
SameRelationshipIsNotRepeated == \A e \in DOMAIN edges : edges[e] = 1


\* --- RequirementGroups of the compiled graph (under SpecAvailable) ---

\* the groups a course owns, as nodes of the store
GroupsOf(code) ==
    {g \in DOMAIN nodes :
        /\ g.label = "RequirementGroup"
        /\ HasEdge(edges, "HAS_REQUIREMENT", CourseRef(code), GroupRef(g.key))}

GroupEdgeKind(op) == IF op = "AND" THEN "REQUIRES" ELSE "OPTION"

\* the relationships that leave a group of the course
GroupEdges(code) ==
    {e \in DOMAIN edges :
        /\ e.from.label = "RequirementGroup"
        /\ \E g \in GroupsOf(code) : e.from = GroupRef(g.key)}

GroupType(ref) ==
    (CHOOSE g \in DOMAIN nodes :
        g.label = "RequirementGroup" /\ g.key = ref.key).prop

AndOrNodes(d) == {n \in SubNodes(d.prerequisite_ast) : n.op \in {"AND", "OR"}}

\* every resolvable child of the given kinds has its one relationship from
\* a group of the node's type, and a group has no other relationship
GroupsAttach(d, ops) ==
    /\ \A n \in AndOrNodes(d) : \A j \in 1..Len(n.args) :
          (n.args[j].op \in ops /\ Resolvable(n.args[j].id)) =>
              \E e \in GroupEdges(d.course_code) :
                  /\ e.kind = GroupEdgeKind(n.op)
                  /\ GroupType(e.from) = n.op
                  /\ e.to = CourseRef(convert_master_id_to_code(n.args[j].id))
                  /\ edges[e] = 1
    /\ \A e \in GroupEdges(d.course_code) :
          \E n \in AndOrNodes(d) : \E j \in 1..Len(n.args) :
              /\ n.args[j].op \in ops
              /\ e.kind = GroupEdgeKind(n.op)
              /\ GroupType(e.from) = n.op
              /\ e.to = CourseRef(convert_master_id_to_code(n.args[j].id))

\* C23: in the compiled graph every resolvable COURSE child of an AND / OR
\* node has exactly one REQUIRES (AND) / OPTION (OR) relationship from a
\* group of that operator, and the groups of a course have no other
\* relationship: none for a nested AND / OR child, none for a child that is
\* not a COURSE leaf
C23_OnlyCourseLeavesAttach ==
    Loaded => \A i \in 1..Len(catalog) : GroupsAttach(catalog[i], {"COURSE"})

\* what holds instead: CONCURRENT children are attached like COURSE children
CourseAndConcurrentLeavesAttach ==
    Loaded =>
        \A i \in 1..Len(catalog) :
            GroupsAttach(catalog[i], {"COURSE", "CONCURRENT"})


\* --- one RequirementGroup per AND / OR node (under SpecCompile) ---

\* the AND / OR nodes of an AST with the given operator, each occurrence
RECURSIVE CountNodes(_, _)
RECURSIVE CountNodesIn(_, _, _)
CountNodesIn(args, op, i) ==
    IF i > Len(args) THEN 0
    ELSE CountNodes(args[i], op) + CountNodesIn(args, op, i + 1)

CountNodes(node, op) ==
    (IF node.op = op THEN 1 ELSE 0) + CountNodesIn(node.args, op, 1)

GroupNodes == {g \in DOMAIN nodes : g.label = "RequirementGroup"}

Owners(g) ==
    {e \in DOMAIN edges : e.kind = "HAS_REQUIREMENT" /\ e.to = GroupRef(g.key)}

\* C24: after the AST pass of one run every AND / OR node of every course
\* has a RequirementGroup of its own: a course owns as many AND groups and
\* as many OR groups as its AST has AND and OR nodes, nested ones included;
\* every group is one node, is owned through exactly one HAS_REQUIREMENT
\* relationship, by the course its id req_<code>_<n> names, and no two
\* courses own the same group
C24_OneGroupPerNode ==
    pc = "compiled" =>
        /\ \A i \in 1..Len(catalog) : \A op \in {"AND", "OR"} :
              Cardinality({g \in GroupsOf(catalog[i].course_code) : g.prop = op})
                  = CountNodes(catalog[i].prerequisite_ast, op)
        /\ \A g \in GroupNodes :
              /\ nodes[g] = 1
              /\ Cardinality(Owners(g)) = 1
              /\ \A e \in Owners(g) :
                    /\ edges[e] = 1
                    /\ e.from.label = "Course"
                    /\ \E n \in 1..MaxReqCounter : g.key = ReqId(e.from.key, n)
        /\ \A i \in 1..Len(catalog), j \in 1..Len(catalog) :
              i # j => GroupsOf(catalog[i].course_code)
                           \cap GroupsOf(catalog[j].course_code) = {}

\* an OR over a nested AND for CSCE 1101 and an AND for CSCE 2303: three
\* groups in one run
C24_Witness ==
    /\ pc = "compiled"
    /\ catalog[2].prerequisite_ast =
           Or(<<And(<<Course(None), Course(M9999)>>), Course(M1001)>>)
    /\ catalog[3].prerequisite_ast = And(<<Course(M1001), Course(M1101)>>)
    /\ Cardinality(GroupNodes) = 3
    /\ Cardinality(GroupsOf(C1101)) = 2


\* --- order and content of the closure (under SpecWalk) ---

\* C25: the courses get_all_prerequisites_recursive lists are in the
\* lexical order of their codes
C25_ClosureInLexicalOrder ==
    ClosureDone =>
        \A i \in 1..Len(answer.result), j \in 1..Len(answer.result) :
            i < j => CodeLess(answer.result[i], answer.result[j])

\* what the tool keeps instead: the order of first discovery, so a course
\* listed first in prerequisite_courses comes first
ClosureStartsWithFirstLink ==
    (ClosureDone /\ answer.result # <<>>) =>
        LET first == SelectSeq(
                get_course_by_master_id(courses, StartId).prerequisite_courses,
                LAMBDA m : get_course_by_master_id(courses, m) # NoDoc)
        IN  answer.result[1] = get_course_by_master_id(courses, first[1]).course_code

\* C26: the course the closure was asked for is not in it
C26_StartNotInClosure ==
    ClosureDone => get_course_by_code(courses, query.course_code).course_code \notin Range(answer.result)


\* the start course is listed exactly when it is reachable from itself
StartListedOnlyOnCycle ==
    ClosureDone =>
        (get_course_by_code(courses, query.course_code).course_code
             \in Range(answer.result)
         <=> StartId \in ReachPlus(StartId))


\* --- the answers of check_if_course_required_for (under SpecWalk) ---

BothCoursesExist ==
    /\ get_course_by_code(courses, query.target_course_code) # NoDoc
    /\ get_course_by_code(courses, query.check_course_code) # NoDoc

\* C27: for two courses of the store the tool answers YES or NO and does
\* not raise, also when the two are the same course and when the checked
\* course is a direct prerequisite
C27_PathToolAnswersYesOrNo ==
    (PathQuery /\ BothCoursesExist) => answer.kind \in {"yes", "no"}

\* the tool raises exactly when the two arguments name the same course;
\* a direct prerequisite gives YES with a chain of two
PathToolRaisesOnSameCourse ==
    (PathQuery /\ BothCoursesExist) =>
        /\ answer.kind = "raised" <=> FromId = TargetId
        /\ (answer.kind = "yes" /\ Len(answer.path) = 2) =>
               TargetId \in Range(
                   get_course_by_master_id(courses, FromId).prerequisite_courses)


\* --- COURSE leaves without master id (under SpecEval) ---

LeavesWithoutId ==
    {n \in SubNodes(QueriedAst) : n.op = "COURSE" /\ ~Truthy(n.id)}

RECURSIVE Distinct(_, _)
Distinct(seq, seen) ==
    IF seq = <<>> THEN <<>>
    ELSE IF Head(seq) \in seen THEN Distinct(Tail(seq), seen)
    ELSE <<Head(seq)>> \o Distinct(Tail(seq), seen \cup {Head(seq)})

\* C29: a course named more than once in completed_courses, in whatever
\* case and with whatever blanks around it, adds its credits once
C29_EachCourseCountsOnce ==
    ProgressQuery =>
        answer.completed_credits =
            count_completed(courses, Distinct(NormalizedCompleted, {}),
                            [credits |-> 0, ids |-> {}]).credits

\* the part of a credits text before the first "-"
RECURSIVE BeforeDash(_)
BeforeDash(t) ==
    IF t = <<>> \/ Head(t) = "-" THEN <<>>
    ELSE <<Head(t)>> \o BeforeDash(Tail(t))

\* import_courses: int(credits.split('-')[0]) for a string, 3 when that
\* raises
import_credits(v) ==
    IF v.type = "int" THEN v.number
    ELSE LET first == int(StrCredits(BeforeDash(v.text)))
         IN  IF first.raised THEN 3 ELSE first.value

\* the completed courses that are in the store
FoundCompleted ==
    {get_course_by_code(courses, NormalizedCompleted[i]) :
        i \in {j \in 1..Len(NormalizedCompleted) :
                  get_course_by_code(courses, NormalizedCompleted[j]) # NoDoc}}

RECURSIVE SumLowerBounds(_)
SumLowerBounds(completed_courses) ==
    IF completed_courses = <<>> THEN 0
    ELSE LET course == get_course_by_code(courses, Head(completed_courses))
         IN  (IF course = NoDoc THEN 0 ELSE import_credits(credits_of(course)))
             + SumLowerBounds(Tail(completed_courses))

\* C30: every completed course found in the store counts toward the
\* freshman and concentration counts of the sets it is in and toward the
\* completed credits, a course whose credits are a range such as "1-3"
\* with the lower bound of the range
C30_RangeCreditsAreCounted ==
    ProgressQuery =>
        LET found == {c.course_master_id : c \in FoundCompleted}
            requirements == QueriedProgram.program_requirements
        IN  /\ answer.freshman_completed =
                   Cardinality(found \cap
                       SetOf(requirements.core_curriculum.freshman_requirements
                                 .required_course_master_ids))
            /\ answer.conc_completed =
                   Cardinality(found \cap
                       SetOf(requirements.concentration.required_course_master_ids))
            /\ answer.completed_credits = SumLowerBounds(NormalizedCompleted)

\* the two agree as long as no completed course has credits int() rejects
CountsAgreeOnReadableCredits ==
    (ProgressQuery /\ \A c \in FoundCompleted : ~int(credits_of(c)).raised) =>
        LET found == {c.course_master_id : c \in FoundCompleted}
            requirements == QueriedProgram.program_requirements
        IN  /\ answer.conc_completed =
                   Cardinality(found \cap
                       SetOf(requirements.concentration.required_course_master_ids))
            /\ answer.completed_credits = SumLowerBounds(NormalizedCompleted)

====
